---- MODULE Spec2Model ----
(***************************************************************************)
(* Room game engine of the two-player UNO-like server                      *)
(* (src/unnamed/part_001: Express + Socket.IO server with optional CPU     *)
(* opponent).  One action per socket handler / timer callback; every       *)
(* handler is one atomic step because the server is single-threaded.       *)
(***************************************************************************)
EXTENDS Integers, Sequences, FiniteSets, TLC

\* ------------------------------------------------------------------ bounds
\* The deck of the source has 4 colors, values 0..9, two copies of every
\* 1..9 / action card and 4 wild pairs, and deals 7 cards per seat.  The
\* model scales these down; createDeck keeps the source's structure.
NumColors == 2
MaxValue == 0
Copies == 1
WildPairs == 1
HandSize == 3
\* number of distinct random streams a shuffle may use
NumSeeds == 1
\* number of play / draw / timeout / cpu steps explored per room
MaxMoves == 4

\* ------------------------------------------------------------- identities
CPU_ID == "CPU"
Null == "null"
Sockets == {"s1", "s2", "s3"}
\* the sockets that create rooms, and the sockets that send the other intents
Creators == {"s1"}
Players == {"s1", "s2"}
Codes == {"1000"}
NoRoom == [phase |-> "absent"]

ColorNames == <<"red", "yellow", "green", "blue">>
validColors == {"red", "yellow", "green", "blue"}
NoColor == "none"
NoValue == -1
NoCard == [id |-> 0, color |-> NoColor, value |-> NoValue, type |-> "null"]
ActionTypes == <<"skip", "reverse", "draw2">>
Difficulties == {"easy", "medium", "hard"}

\* ------------------------------------------------------------ DECK / RULES
Card(id, color, value, type) ==
    [id |-> id, color |-> color, value |-> value, type |-> type]

\* a deck whose color blocks start with the 0 card pushed once per copy
colorCards_ZeroCopies(color, maxValue, copies) ==
    [k \in 1..copies |-> Card(0, color, 0, "number")]
    \o [k \in 1..(maxValue * copies) |->
            Card(0, color, ((k - 1) \div copies) + 1, "number")]
    \o [k \in 1..(3 * copies) |->
            Card(0, color, NoValue, ActionTypes[((k - 1) \div copies) + 1])]

\* the cards createDeck pushes for one color, in push order: the 0, copies of
\* each of 1..maxValue, copies of each action
colorCards(color, maxValue, copies) ==
    <<Card(0, color, 0, "number")>>
    \o [k \in 1..(maxValue * copies) |->
            Card(0, color, ((k - 1) \div copies) + 1, "number")]
    \o [k \in 1..(3 * copies) |->
            Card(0, color, NoValue, ActionTypes[((k - 1) \div copies) + 1])]

RECURSIVE allColorCards(_, _, _)
allColorCards(n, maxValue, copies) ==
    IF n = 0 THEN <<>>
    ELSE allColorCards(n - 1, maxValue, copies)
             \o colorCards(ColorNames[n], maxValue, copies)

wildCards(pairs) ==
    [k \in 1..(2 * pairs) |->
        Card(0, NoColor, NoValue, IF k % 2 = 1 THEN "wild" ELSE "wild4")]

\* createDeck for a deck of the given size: idCounter++ makes the id of a
\* card its position in the deck
deckOf(colors, maxValue, copies, pairs) ==
    LET raw == allColorCards(colors, maxValue, copies) \o wildCards(pairs)
    IN  [i \in 1..Len(raw) |-> [raw[i] EXCEPT !.id = i]]

\* the deck of the model
createDeck == deckOf(NumColors, MaxValue, Copies, WildPairs)

\* the deck of the source: 4 colors, values 0..9, two copies, 4 wild pairs
sourceDeck == deckOf(4, 9, 2, 4)

DeckSize == Len(createDeck)

\* Math.floor(Math.random() * (i + 1)) for 0-based i, i.e. a position in
\* 1..i for 1-based i; the random stream is selected by seed.
Roll(seed, i) == (seed % i) + 1

Swap(a, i, j) == [a EXCEPT ![i] = a[j], ![j] = a[i]]

RECURSIVE shuffleFrom(_, _, _)
shuffleFrom(a, i, seed) ==
    IF i <= 1 THEN a ELSE shuffleFrom(Swap(a, i, Roll(seed, i)), i - 1, seed)

\* Fisher-Yates, from the last position down
shuffle(array, seed) == shuffleFrom(array, Len(array), seed)

Last(s) == s[Len(s)]
Front(s) == SubSeq(s, 1, Len(s) - 1)

\* discard top, NoCard for undefined
topOf(room) ==
    IF Len(room.discardPile) = 0 THEN NoCard ELSE Last(room.discardPile)

\* drawOne that returns the top of the draw pile without popping it
drawOne_NoPop(room, seed) ==
    IF Len(room.deck) = 0 THEN [room |-> room, card |-> NoCard]
    ELSE [room |-> room, card |-> Last(room.deck)]

\* drawOne returns the updated room and the card (NoCard for null)
drawOne(room, seed) ==
    IF Len(room.deck) = 0 /\ Len(room.discardPile) <= 1
    THEN [room |-> room, card |-> NoCard]
    ELSE LET r1 == IF Len(room.deck) = 0
                   THEN [room EXCEPT
                           !.deck = shuffle(Front(room.discardPile), seed),
                           !.discardPile = <<Last(room.discardPile)>>]
                   ELSE room
         IN  IF Len(r1.deck) = 0
             THEN [room |-> r1, card |-> NoCard]
             ELSE [room |-> [r1 EXCEPT !.deck = Front(r1.deck)],
                   card |-> Last(r1.deck)]

\* a canPlay that lets any action card go on any action card
canPlay_AnyAction(card, top) ==
    IF card = NoCard \/ top = NoCard THEN FALSE
    ELSE IF card.type = "wild" \/ card.type = "wild4" THEN TRUE
    ELSE IF card.color = top.color THEN TRUE
    ELSE IF card.type = "number" /\ top.type = "number" /\ card.value = top.value THEN TRUE
    ELSE IF card.type # "number" /\ top.type # "number" THEN TRUE
    ELSE FALSE

canPlay(card, top) ==
    IF card = NoCard \/ top = NoCard THEN FALSE
    ELSE IF card.type = "wild" \/ card.type = "wild4" THEN TRUE
    ELSE IF card.color = top.color THEN TRUE
    ELSE IF card.type = "number" /\ top.type = "number" /\ card.value = top.value
         THEN TRUE
    ELSE IF card.type # "number" /\ card.type = top.type THEN TRUE
    ELSE FALSE

describeCard(card) ==
    IF card = NoCard THEN <<"", "">>
    ELSE IF card.type = "number" THEN <<card.color, ToString(card.value)>>
    ELSE IF card.type = "draw2" THEN <<card.color, "+2">>
    ELSE IF card.type = "wild" THEN <<"Wild", card.color>>
    ELSE IF card.type = "wild4" THEN <<"Wild +4", card.color>>
    ELSE <<card.color, IF card.type = "skip" THEN "Skip" ELSE "Reverse">>

\* --------------------------------------------------------------- ROOM STATE
Ids == Sockets \cup {CPU_ID}

\* room.turnTimeout: the handle of the human timeout.  player is the
\* playerToTimeout captured by the callback (Null when the field is null);
\* fired tells that the callback already ran and returned early, which
\* leaves the stale handle in the field.
NoTimer == [player |-> Null, fired |-> FALSE]

\* the object literal of createRoom / createRoomCpu.  emits and stamped are
\* bookkeeping of the handler in progress: the number of sendGameState calls
\* and whether lastMoveAt was assigned.
newRoom(p1, p2, isCpu, diff, msg) ==
    [players |-> <<p1, p2>>,
     hands |-> <<>>,
     deck |-> <<>>,
     discardPile |-> <<>>,
     currentTurn |-> Null,
     isGameOver |-> FALSE,
     winner |-> Null,
     message |-> <<msg>>,
     unoStatus |-> [p \in Ids |-> FALSE],
     specialEffect |-> Null,
     turnTimeout |-> NoTimer,
     cpuTimer |-> FALSE,
     gameId |-> 0,
     phase |-> "waiting",
     dealAcks |-> [g \in {0} |-> {}],
     isCpuGame |-> isCpu,
     cpuDifficulty |-> diff,
     emits |-> 0,
     stamped |-> TRUE]

\* room.hands[p] || []
handOf(room, p) == IF p \in DOMAIN room.hands THEN room.hands[p] ELSE <<>>

\* room.dealAcks?.[gameId] || {}
ackMapOf(room) ==
    IF room.gameId \in DOMAIN room.dealAcks THEN room.dealAcks[room.gameId] ELSE {}

\* room.players.find((id) => id && id !== p), Null for undefined
otherPlayer(room, p) ==
    IF room.players[1] # Null /\ room.players[1] # p THEN room.players[1]
    ELSE IF room.players[2] # Null /\ room.players[2] # p THEN room.players[2]
    ELSE Null

stamp(room) == [room EXCEPT !.stamped = TRUE]

\* sendGameState is called with the code of a room that is still registered
sendGameState(room) == [room EXCEPT !.emits = @ + 1]

pushHand(room, p, card) ==
    [room EXCEPT !.hands = [q \in DOMAIN @ |-> IF q = p THEN Append(@[q], card) ELSE @[q]]]

\* draw n times for player p, pushing every card obtained
RECURSIVE drawInto(_, _, _, _)
drawInto(room, p, n, seed) ==
    IF n = 0 THEN room
    ELSE LET d == drawOne(room, seed)
         IN  drawInto(IF d.card = NoCard THEN d.room ELSE pushHand(d.room, p, d.card),
                      p, n - 1, seed)

\* --------------------------------------------------------------- UNO PENALTY
\* penalty that consumes the flag but draws when UNO was called
maybeApplyUnoPenalty_Inverted(room, playerId, afterPlayCount, seed) ==
    LET unoCalled == room.unoStatus[playerId]
        r1 == [room EXCEPT !.unoStatus[playerId] = FALSE]
    IN  IF afterPlayCount = 1 /\ unoCalled
        THEN stamp([drawInto(r1, playerId, 2, seed) EXCEPT !.message = <<"penalty">>])
        ELSE r1

maybeApplyUnoPenalty(room, playerId, afterPlayCount, seed) ==
    LET unoCalled == room.unoStatus[playerId]
        r1 == [room EXCEPT !.unoStatus[playerId] = FALSE]
    IN  IF afterPlayCount = 1 /\ ~unoCalled
        THEN stamp([drawInto(r1, playerId, 2, seed) EXCEPT !.message = <<"penalty">>])
        ELSE r1

\* -------------------------------------------------------------------- TIMERS
\* a clearTurnTimer that leaves the timeout pending
clearTurnTimer_Keep(room) == room

clearTurnTimer(room) == [room EXCEPT !.turnTimeout = NoTimer]

clearCpuTimer(room) == [room EXCEPT !.cpuTimer = FALSE]

scheduleCpuTurn(room) ==
    LET r1 == clearCpuTimer(room)
    IN  IF ~r1.isCpuGame THEN r1
        ELSE IF r1.phase # "playing" \/ r1.isGameOver THEN r1
        ELSE IF r1.currentTurn # CPU_ID THEN r1
        ELSE [r1 EXCEPT !.cpuTimer = TRUE]

\* a setTurnTimer that clears the pending timeout and never arms one for a
\* person
setTurnTimer_ClearOnly(room) ==
    LET r1 == clearTurnTimer(room)
    IN  IF r1.phase # "playing" \/ r1.isGameOver THEN r1
        ELSE IF r1.currentTurn = Null THEN r1
        ELSE IF r1.currentTurn = CPU_ID THEN scheduleCpuTurn(r1)
        ELSE r1

\* the part of setTurnTimer that runs when it is called (the callback is
\* the action TurnTimeoutFires)
setTurnTimer(room) ==
    LET r1 == clearTurnTimer(room)
    IN  IF r1.phase # "playing" \/ r1.isGameOver THEN r1
        ELSE IF r1.currentTurn = Null THEN r1
        ELSE IF r1.currentTurn = CPU_ID THEN scheduleCpuTurn(r1)
        ELSE [r1 EXCEPT !.turnTimeout = [player |-> r1.currentTurn, fired |-> FALSE]]

\* "Next step (CPU or timer)" at the end of applyPlay, drawCard and
\* startPlayingIfReady
scheduleNext(room) ==
    IF room.currentTurn = CPU_ID THEN scheduleCpuTurn(room) ELSE setTurnTimer(room)

\* ----------------------------------------------------------------- GAME FLOW
\* the 7 rounds over room.players: draw k goes to seat 1 when k is odd
RECURSIVE dealRounds(_, _, _)
dealRounds(room, k, seed) ==
    IF k > 2 * HandSize THEN room
    ELSE LET pid == room.players[IF k % 2 = 1 THEN 1 ELSE 2]
         IN  dealRounds(IF pid = Null THEN room ELSE drawInto(room, pid, 1, seed),
                        k + 1, seed)

\* a deal that picks no starter
dealInitialCards_NoStarter(room, seed, color, starterIndex) ==
    LET gid == room.gameId + 1
        r0 == [room EXCEPT
                 !.gameId = gid,
                 !.phase = "dealing",
                 !.dealAcks = [g \in (DOMAIN @) \cup {gid} |-> IF g = gid THEN {} ELSE @[g]],
                 !.deck = shuffle(createDeck, seed),
                 !.discardPile = <<>>,
                 !.isGameOver = FALSE,
                 !.winner = Null,
                 !.specialEffect = Null,
                 !.hands = [p \in {room.players[1], room.players[2]} \ {Null} |-> <<>>]]
        r1 == dealRounds(r0, 1, seed)
        d == drawOne(r1, seed)
        first0 == IF d.card = NoCard THEN Card(9999, "red", 0, "number") ELSE d.card
        first == IF first0.type = "wild" \/ first0.type = "wild4"
                 THEN [first0 EXCEPT !.color = color] ELSE first0
        r2 == [d.room EXCEPT
                 !.discardPile = Append(@, first),
                 !.message = <<"dealing">>]
        r3 == clearCpuTimer(clearTurnTimer(stamp(r2)))
        r4 == IF r3.isCpuGame
              THEN [r3 EXCEPT !.dealAcks[gid] = @ \cup {CPU_ID}] ELSE r3
    IN  sendGameState(r4)

\* a deal that leaves an opening wild without a color
dealInitialCards_PlainFirst(room, seed, color, starterIndex) ==
    LET gid == room.gameId + 1
        r0 == [room EXCEPT
                 !.gameId = gid,
                 !.phase = "dealing",
                 !.dealAcks = [g \in (DOMAIN @) \cup {gid} |-> IF g = gid THEN {} ELSE @[g]],
                 !.deck = shuffle(createDeck, seed),
                 !.discardPile = <<>>,
                 !.isGameOver = FALSE,
                 !.winner = Null,
                 !.specialEffect = Null,
                 !.hands = [p \in {room.players[1], room.players[2]} \ {Null} |-> <<>>]]
        r1 == dealRounds(r0, 1, seed)
        d == drawOne(r1, seed)
        first == IF d.card = NoCard THEN Card(9999, "red", 0, "number") ELSE d.card
        r2 == [d.room EXCEPT
                 !.discardPile = Append(@, first),
                 !.currentTurn = room.players[starterIndex],
                 !.message = <<"dealing">>]
        r3 == clearCpuTimer(clearTurnTimer(stamp(r2)))
        r4 == IF r3.isCpuGame
              THEN [r3 EXCEPT !.dealAcks[gid] = @ \cup {CPU_ID}] ELSE r3
    IN  sendGameState(r4)

dealInitialCards(room, seed, color, starterIndex) ==
    LET gid == room.gameId + 1
        r0 == [room EXCEPT
                 !.gameId = gid,
                 !.phase = "dealing",
                 !.dealAcks = [g \in (DOMAIN @) \cup {gid} |-> IF g = gid THEN {} ELSE @[g]],
                 !.deck = shuffle(createDeck, seed),
                 !.discardPile = <<>>,
                 !.isGameOver = FALSE,
                 !.winner = Null,
                 !.specialEffect = Null,
                 !.hands = [p \in {room.players[1], room.players[2]} \ {Null} |-> <<>>]]
        r1 == dealRounds(r0, 1, seed)
        d == drawOne(r1, seed)
        first0 == IF d.card = NoCard THEN Card(9999, "red", 0, "number") ELSE d.card
        first == IF first0.type = "wild" \/ first0.type = "wild4"
                 THEN [first0 EXCEPT !.color = color] ELSE first0
        r2 == [d.room EXCEPT
                 !.discardPile = Append(@, first),
                 !.currentTurn = room.players[starterIndex],
                 !.message = <<"dealing">>]
        r3 == clearCpuTimer(clearTurnTimer(stamp(r2)))
        r4 == IF r3.isCpuGame
              THEN [r3 EXCEPT !.dealAcks[gid] = @ \cup {CPU_ID}] ELSE r3
    IN  sendGameState(r4)

\* a barrier that opens on the first acknowledgment
startPlayingIfReady_EitherAck(room) ==
    LET ackMap == ackMapOf(room)
        ready == room.players[1] \in ackMap \/ room.players[2] \in ackMap
    IN  IF ~ready THEN room
        ELSE scheduleNext(sendGameState(stamp(
                 [room EXCEPT !.phase = "playing", !.message = <<"started">>])))

startPlayingIfReady(room) ==
    LET ackMap == ackMapOf(room)
        ready == room.players[1] \in ackMap /\ room.players[2] \in ackMap
    IN  IF ~ready THEN room
        ELSE scheduleNext(sendGameState(stamp(
                 [room EXCEPT !.phase = "playing", !.message = <<"started">>])))

\* ------------------------------------------- PLAY ACTION (shared human/CPU)
\* hand.findIndex((c) => c.id === cardId), 0 for -1
RECURSIVE findIndexFrom(_, _, _)
findIndexFrom(hand, cardId, i) ==
    IF i > Len(hand) THEN 0
    ELSE IF hand[i].id = cardId THEN i
    ELSE findIndexFrom(hand, cardId, i + 1)

findIndex(hand, cardId) == findIndexFrom(hand, cardId, 1)

\* hand.splice(index, 1)
splice(hand, index) ==
    [i \in 1..(Len(hand) - 1) |-> IF i < index THEN hand[i] ELSE hand[i + 1]]

\* a rejection that broadcasts the room
fail_Broadcast(room, error) ==
    [room |-> sendGameState(room), ok |-> FALSE, gameOver |-> FALSE, error |-> error]

fail(room, error) == [room |-> room, ok |-> FALSE, gameOver |-> FALSE, error |-> error]

\* a turn rule under which the plain wild also keeps the turn
turnAgain_WithWild(card) ==
    card.type = "skip" \/ card.type = "reverse" \/ card.type = "draw2"
        \/ card.type = "wild4" \/ card.type = "wild"

\* "Turn rule (your house rule: action cards grant another turn)"
turnAgain(card) ==
    card.type = "skip" \/ card.type = "reverse" \/ card.type = "draw2" \/ card.type = "wild4"

\* a Draw-Two that forces three cards
effectDraws_Three(card) ==
    IF card.type = "draw2" THEN 3 ELSE IF card.type = "wild4" THEN 4 ELSE 0

\* number of cards the opponent is forced to draw
effectDraws(card) ==
    IF card.type = "draw2" THEN 2 ELSE IF card.type = "wild4" THEN 4 ELSE 0

\* a win that leaves the timers as they are
winGame_KeepTimers(room, playerId) ==
    sendGameState(stamp(
        [room EXCEPT !.isGameOver = TRUE,
                     !.winner = playerId,
                     !.phase = "gameover",
                     !.message = <<"gameover">>]))

\* the win branch of applyPlay
winGame(room, playerId) ==
    sendGameState(clearCpuTimer(clearTurnTimer(stamp(
        [room EXCEPT !.isGameOver = TRUE,
                     !.winner = playerId,
                     !.phase = "gameover",
                     !.message = <<"gameover">>]))))

\* applyPlay after the validity checks: remove, discard, penalty, win,
\* effects, turn rule, broadcast, next schedule
resolvePlay(room, playerId, index, card, seed) ==
    LET r1 == [room EXCEPT
                 !.hands[playerId] = splice(@, index),
                 !.discardPile = Append(@, card),
                 !.specialEffect = IF card.type = "wild4" THEN "wild4" ELSE Null]
        r2 == maybeApplyUnoPenalty(r1, playerId, Len(r1.hands[playerId]), seed)
        opponentId == otherPlayer(r2, playerId)
        r3 == IF opponentId # Null
              THEN drawInto(r2, opponentId, effectDraws(card), seed) ELSE r2
        r4 == [r3 EXCEPT
                 !.currentTurn = IF turnAgain(card) THEN playerId
                                 ELSE IF opponentId # Null THEN opponentId
                                 ELSE playerId,
                 !.message = <<"played">> \o describeCard(card)]
    IN  IF Len(r2.hands[playerId]) = 0
        THEN [room |-> winGame(r2, playerId), ok |-> TRUE, gameOver |-> TRUE, error |-> ""]
        ELSE [room |-> scheduleNext(sendGameState(stamp(r4))),
              ok |-> TRUE, gameOver |-> FALSE, error |-> ""]

applyPlay(room, playerId, cardId, chosenColor, seed) ==
    LET hand == handOf(room, playerId)
        index == findIndex(hand, cardId)
        card == hand[index]
        top == topOf(room)
    IN  IF index = 0 THEN fail(room, "Card not in hand.")
        ELSE IF card.type = "wild" \/ card.type = "wild4"
        THEN IF chosenColor \notin validColors
             THEN fail(room, "Must choose a color for wild.")
             ELSE resolvePlay(room, playerId, index,
                              [card EXCEPT !.color = chosenColor], seed)
        ELSE IF ~canPlay(card, top) THEN fail(room, "You can't play that card.")
        ELSE resolvePlay(room, playerId, index, card, seed)

\* ----------------------------------------------------------------------- CPU
countColor(hand, color) == Cardinality({i \in DOMAIN hand : hand[i].color = color})

\* rnd is colors[Math.floor(Math.random() * colors.length)]
cpuPickColor(room, rnd) ==
    LET hand == handOf(room, CPU_ID)
        cnt(k) == countColor(hand, ColorNames[k])
        \* the first key whose count is not exceeded by a later key's
        best == CHOOSE k \in 1..4 :
                   /\ \A j \in 1..4 : cnt(j) <= cnt(k)
                   /\ \A j \in 1..(k - 1) : cnt(j) < cnt(k)
    IN  IF cnt(best) = 0 THEN rnd ELSE ColorNames[best]

\* a call that depends on the roll on every tier
cpuShouldCallUno_HardRolls(room, roll) ==
    IF Len(handOf(room, CPU_ID)) # 2 THEN FALSE
    ELSE roll

\* a computer that calls at any hand size
cpuShouldCallUno_AnyHand(room, roll) ==
    IF room.cpuDifficulty = "hard" THEN TRUE
    ELSE roll

\* roll tells whether Math.random() fell below the tier's threshold
cpuShouldCallUno(room, roll) ==
    IF Len(handOf(room, CPU_ID)) # 2 THEN FALSE
    ELSE IF room.cpuDifficulty = "hard" THEN TRUE
    ELSE roll

\* score(card) without the jitter Math.random() * 0.5
score(room, card) ==
    LET diff == room.cpuDifficulty
        hand == handOf(room, CPU_ID)
    IN  (IF card.type = "wild4" THEN 50
         ELSE IF card.type = "draw2" THEN 30
         ELSE IF card.type = "skip" \/ card.type = "reverse" THEN 20
         ELSE 10)
        + (IF diff = "hard" /\ card.type = "wild" THEN -2 ELSE 0)
        + (IF card.color # NoColor THEN countColor(hand, card.color) ELSE 0)
        + (IF diff = "hard" /\ card.type # "number" THEN 2 ELSE 0)

\* a choice among all the cards of the hand, playable or not
cpuChooseCard_AnyCard(room) ==
    LET hand == handOf(room, CPU_ID)
        top == topOf(room)
        playable == {hand[i] : i \in DOMAIN hand}
    IN  IF room.cpuDifficulty = "easy" THEN playable
        ELSE {c \in playable : \A d \in playable : score(room, d) <= score(room, c)}

\* the cards cpuChooseCard can return ({} for null): any playable card on
\* easy, otherwise a playable card of highest score (the jitter, below 0.5,
\* orders only cards of equal integer score)
cpuChooseCard(room) ==
    LET hand == handOf(room, CPU_ID)
        top == topOf(room)
        playable == {hand[i] : i \in {j \in DOMAIN hand : canPlay(hand[j], top)}}
    IN  IF room.cpuDifficulty = "easy" THEN playable
        ELSE {c \in playable : \A d \in playable : score(room, d) <= score(room, c)}

\* "Draw 1" of cpuTakeTurn: drawOne, then hand.push(drawn) unless null
cpuDrawn(room, seed) ==
    LET d == drawOne(room, seed)
    IN  [room |-> IF d.card = NoCard THEN d.room ELSE pushHand(d.room, CPU_ID, d.card),
         card |-> d.card]

\* the draw branch of cpuTakeTurn; top was read before the draw
cpuDraw(room, top, seed) ==
    LET d == cpuDrawn(room, seed)
        other == otherPlayer(d.room, CPU_ID)
        next == IF other # Null THEN other ELSE CPU_ID
        pass(r, msg) ==
            LET r1 == sendGameState(stamp(
                          [r EXCEPT !.message = <<msg>>, !.currentTurn = next]))
            IN  IF r1.currentTurn # CPU_ID THEN setTurnTimer(r1) ELSE r1
        canAuto == d.card.type # "wild" /\ d.card.type # "wild4" /\ canPlay(d.card, top)
    IN  IF d.card = NoCard THEN pass(d.room, "cpu no cards")
        ELSE IF canAuto THEN applyPlay(d.room, CPU_ID, d.card.id, Null, seed).room
        ELSE pass(d.room, "cpu drew")

\* cpuTakeTurn up to the choice of a card: the human timer is cleared and
\* UNO is called when cpuShouldCallUno says so
cpuReady(room, roll) ==
    LET r1 == clearTurnTimer(room)
    IN  IF cpuShouldCallUno(r1, roll)
        THEN sendGameState(stamp([r1 EXCEPT !.unoStatus[CPU_ID] = TRUE,
                                            !.message = <<"cpu uno">>]))
        ELSE r1

\* chosen is the card cpuChooseCard returned, NoCard for null
cpuTakeTurn(room, roll, chosen, rnd, seed) ==
    IF room.isGameOver THEN room
    ELSE IF room.phase # "playing" THEN room
    ELSE IF room.currentTurn # CPU_ID THEN room
    ELSE LET r2 == cpuReady(room, roll)
             top == topOf(r2)
             chosenColor == IF chosen.type = "wild" \/ chosen.type = "wild4"
                            THEN cpuPickColor(r2, rnd) ELSE Null
         IN  IF chosen # NoCard
             THEN applyPlay(r2, CPU_ID, chosen.id, chosenColor, seed).room
             ELSE cpuDraw(r2, top, seed)

\* --------------------------------------------------------------------- VIEWS
\* the seats sendGameState emits to: occupied, not the computer, and with a
\* socket that is still connected
recipients(room, connected) ==
    {index \in 1..2 : /\ room.players[index] # Null
                      /\ room.players[index] # CPU_ID
                      /\ room.players[index] \in connected}

\* a payload that carries the opponent's cards in the place of the recipient's
gameState_OpponentHand(room, roomCode, index) ==
    LET playerId == room.players[index]
        opponentId == room.players[IF index = 1 THEN 2 ELSE 1]
    IN  [roomCode |-> roomCode,
         youAre |-> IF index = 1 THEN "P1" ELSE "P2",
         gameId |-> room.gameId,
         phase |-> room.phase,
         lastMoveAt |-> room.stamped,
         specialEffect |-> room.specialEffect,
         yourHand |-> handOf(room, opponentId),
         opponentCardCount |-> IF opponentId # Null THEN Len(handOf(room, opponentId)) ELSE 0,
         discardTop |-> topOf(room),
         deckCount |-> Len(room.deck),
         currentTurn |-> room.currentTurn,
         isGameOver |-> room.isGameOver,
         winner |-> room.winner,
         message |-> room.message,
         opponentIsCpu |-> room.isCpuGame /\ opponentId = CPU_ID,
         cpuDifficulty |-> room.cpuDifficulty]

\* the "gameState" payload for the seat index; lastMoveAt is the ghost of the
\* timestamp
gameState(room, roomCode, index) ==
    LET playerId == room.players[index]
        opponentId == room.players[IF index = 1 THEN 2 ELSE 1]
    IN  [roomCode |-> roomCode,
         youAre |-> IF index = 1 THEN "P1" ELSE "P2",
         gameId |-> room.gameId,
         phase |-> room.phase,
         lastMoveAt |-> room.stamped,
         specialEffect |-> room.specialEffect,
         yourHand |-> handOf(room, playerId),
         opponentCardCount |-> IF opponentId # Null THEN Len(handOf(room, opponentId)) ELSE 0,
         discardTop |-> topOf(room),
         deckCount |-> Len(room.deck),
         currentTurn |-> room.currentTurn,
         isGameOver |-> room.isGameOver,
         winner |-> room.winner,
         message |-> room.message,
         opponentIsCpu |-> room.isCpuGame /\ opponentId = CPU_ID,
         cpuDifficulty |-> room.cpuDifficulty]

\* ------------------------------------------------------------------- SOCKETS
\* Every handler is an operator from the room it finds (NoRoom for a missing
\* key) to the room it leaves, with the errorMessage it emits to its socket
\* ("" for none).  The room it returns carries emits and stamped.
reply(room, error) == [room |-> room, error |-> error]

createRoom(s) == reply(sendGameState(newRoom(s, Null, FALSE, Null, "waiting")), "")

createRoomCpu(s, difficulty, seed, color, starterIndex) ==
    LET cpuDifficulty == IF difficulty \in Difficulties THEN difficulty ELSE "easy"
    IN  reply(dealInitialCards(newRoom(s, CPU_ID, TRUE, cpuDifficulty, "starting cpu"),
                               seed, color, starterIndex), "")

joinRoom(room, s, seed, color, starterIndex) ==
    IF room = NoRoom THEN reply(room, "Room not found.")
    ELSE IF room.isCpuGame THEN reply(room, "This room is vs CPU.")
    ELSE IF room.players[2] # Null THEN reply(room, "Room is full.")
    ELSE reply(dealInitialCards(stamp([room EXCEPT !.players[2] = s,
                                                   !.message = <<"both connected">>]),
                                seed, color, starterIndex), "")

dealDone(room, s, gameId) ==
    IF room = NoRoom THEN reply(room, "")
    ELSE IF room.gameId # gameId THEN reply(room, "")
    ELSE reply(startPlayingIfReady(
                   [room EXCEPT !.dealAcks[gameId] = @ \cup {s}]), "")

\* a handler that lets any socket play
playCard_NoTurnCheck(room, s, cardId, chosenColor, seed) ==
    IF room = NoRoom THEN reply(room, "")
    ELSE IF room.isGameOver THEN reply(room, "")
    ELSE IF room.phase # "playing" THEN reply(room, "Still dealing...")
    ELSE LET res == applyPlay(room, s, cardId, chosenColor, seed)
         IN  reply(res.room, res.error)

playCard(room, s, cardId, chosenColor, seed) ==
    IF room = NoRoom THEN reply(room, "")
    ELSE IF room.isGameOver THEN reply(room, "")
    ELSE IF room.phase # "playing" THEN reply(room, "Still dealing...")
    ELSE IF s # room.currentTurn THEN reply(room, "Not your turn.")
    ELSE LET res == applyPlay(room, s, cardId, chosenColor, seed)
         IN  reply(res.room, res.error)

\* a draw that leaves the caller's last-card flag as it was
drawn_KeepFlag(room, s, seed) ==
    LET r0 == [room EXCEPT !.specialEffect = Null]
        d == drawOne(r0, seed)
        r1 == IF s \in DOMAIN d.room.hands THEN d.room
              ELSE [d.room EXCEPT !.hands = [q \in (DOMAIN @) \cup {s} |->
                                               IF q = s THEN <<>> ELSE @[q]]]
    IN  [room |-> IF d.card = NoCard THEN d.room ELSE pushHand(r1, s, d.card),
         card |-> d.card]

\* the drawCard handler from its guards to hand.push(drawn): the flag and
\* the special effect are cleared, one card is drawn and pushed unless null
drawn(room, s, seed) ==
    LET r0 == [room EXCEPT !.unoStatus[s] = FALSE, !.specialEffect = Null]
        d == drawOne(r0, seed)
        r1 == IF s \in DOMAIN d.room.hands THEN d.room
              ELSE [d.room EXCEPT !.hands = [q \in (DOMAIN @) \cup {s} |->
                                               IF q = s THEN <<>> ELSE @[q]]]
    IN  [room |-> IF d.card = NoCard THEN d.room ELSE pushHand(r1, s, d.card),
         card |-> d.card]

\* an auto-play rule that also takes the wild cards
canAutoPlay_WildToo(card, top) == canPlay(card, top)

canAutoPlay(card, top) ==
    card.type # "wild" /\ card.type # "wild4" /\ canPlay(card, top)

\* a draw handler that does not look at isGameOver
drawCard_AfterWin(room, s, seed) ==
    IF room = NoRoom THEN reply(room, "")
    ELSE IF room.phase # "playing" THEN reply(room, "Still dealing...")
    ELSE IF s # room.currentTurn THEN reply(room, "Not your turn.")
    ELSE LET d == drawn(room, s, seed)
             other == otherPlayer(d.room, s)
             res == applyPlay(d.room, s, d.card.id, Null, seed)
         IN  IF d.card = NoCard
             THEN reply(sendGameState(stamp([d.room EXCEPT !.message = <<"no cards">>])), "")
             ELSE IF canAutoPlay(d.card, topOf(d.room)) THEN reply(res.room, res.error)
             ELSE reply(scheduleNext(sendGameState(stamp(
                           [d.room EXCEPT !.message = <<"drew">>,
                                          !.currentTurn = IF other # Null THEN other ELSE s]))),
                        "")

drawCard(room, s, seed) ==
    IF room = NoRoom THEN reply(room, "")
    ELSE IF room.isGameOver THEN reply(room, "")
    ELSE IF room.phase # "playing" THEN reply(room, "Still dealing...")
    ELSE IF s # room.currentTurn THEN reply(room, "Not your turn.")
    ELSE LET d == drawn(room, s, seed)
             other == otherPlayer(d.room, s)
             res == applyPlay(d.room, s, d.card.id, Null, seed)
         IN  IF d.card = NoCard
             THEN reply(sendGameState(stamp([d.room EXCEPT !.message = <<"no cards">>])), "")
             ELSE IF canAutoPlay(d.card, topOf(d.room)) THEN reply(res.room, res.error)
             ELSE reply(scheduleNext(sendGameState(stamp(
                           [d.room EXCEPT !.message = <<"drew">>,
                                          !.currentTurn = IF other # Null THEN other ELSE s]))),
                        "")

\* a call that is accepted whatever the size of the hand
yellUno_AnyHand(room, s) ==
    IF room = NoRoom THEN reply(room, "")
    ELSE reply(sendGameState(stamp(
                   [room EXCEPT !.unoStatus[s] = TRUE, !.message = <<"uno">>])), "")

yellUno(room, s) ==
    IF room = NoRoom THEN reply(room, "")
    ELSE IF Len(handOf(room, s)) > 2
    THEN reply(room, "You can only yell UNO with 2 or fewer cards.")
    ELSE reply(sendGameState(stamp(
                   [room EXCEPT !.unoStatus[s] = TRUE, !.message = <<"uno">>])), "")

\* a disconnect that leaves the timers of the room pending
disconnectRoom_KeepTimers(room) ==
    sendGameState(stamp(
        [room EXCEPT !.message = <<"disconnected">>,
                     !.isGameOver = TRUE,
                     !.phase = "gameover"]))

\* the room as the disconnect handler leaves it just before `delete`
disconnectRoom(room) ==
    sendGameState(clearCpuTimer(clearTurnTimer(stamp(
        [room EXCEPT !.message = <<"disconnected">>,
                     !.isGameOver = TRUE,
                     !.phase = "gameover"]))))

\* ------------------------------------------------------------ TIMER CALLBACKS
\* the human timeout is pending: the handle is set and its callback has not run
turnArmed(room) == room.turnTimeout.player # Null /\ ~room.turnTimeout.fired

\* a callback that does not compare the turn holder with the captured player
turnTimeoutCallback_NoTurnCheck(r, playerToTimeout) ==
    IF r.isGameOver \/ r.phase # "playing"
    THEN [r EXCEPT !.turnTimeout.fired = TRUE]
    ELSE LET other == IF otherPlayer(r, playerToTimeout) # Null
                      THEN otherPlayer(r, playerToTimeout) ELSE playerToTimeout
             r1 == sendGameState(stamp(
                       [r EXCEPT !.message = <<"turn expired">>,
                                 !.currentTurn = other,
                                 !.turnTimeout = NoTimer]))
         IN  IF r1.currentTurn = CPU_ID THEN scheduleCpuTurn(r1) ELSE setTurnTimer(r1)

\* the setTimeout callback of setTurnTimer; the registry still holds the
\* room, because every path that deletes it clears the timer first
turnTimeoutCallback(r, playerToTimeout) ==
    IF r.isGameOver \/ r.phase # "playing" \/ r.currentTurn # playerToTimeout
    THEN [r EXCEPT !.turnTimeout.fired = TRUE]
    ELSE LET other == IF otherPlayer(r, playerToTimeout) # Null
                      THEN otherPlayer(r, playerToTimeout) ELSE playerToTimeout
             r1 == sendGameState(stamp(
                       [r EXCEPT !.message = <<"turn expired">>,
                                 !.currentTurn = other,
                                 !.turnTimeout = NoTimer]))
         IN  IF r1.currentTurn = CPU_ID THEN scheduleCpuTurn(r1) ELSE setTurnTimer(r1)

\* the setTimeout callback of scheduleCpuTurn
cpuTimerCallback(r, roll, chosen, rnd, seed) ==
    cpuTakeTurn([r EXCEPT !.cpuTimer = FALSE], roll, chosen, rnd, seed)

\* the values cpuChooseCard can return inside cpuTakeTurn, NoCard for null
cpuChoices(r, roll) ==
    LET r0 == [r EXCEPT !.cpuTimer = FALSE]
        choices == cpuChooseCard(IF cpuShouldCallUno(r0, roll)
                                 THEN [r0 EXCEPT !.unoStatus[CPU_ID] = TRUE] ELSE r0)
    IN  IF choices = {} THEN {NoCard} ELSE choices

\* --------------------------------------------------------------------- STATE
\* rooms: the registry `rooms` (roomCode -> state, NoRoom for a missing key)
\* open:  the sockets whose connection is open
\* moves: number of play / draw / timeout / cpu steps taken in the room
VARIABLES rooms, open, moves

vars == <<rooms, open, moves>>

Seeds == 1..NumSeeds

Exists(code) == rooms[code] # NoRoom

\* the room as it stays in the registry once the handler returned
settle(room) == IF room = NoRoom THEN room ELSE [room EXCEPT !.emits = 0, !.stamped = FALSE]

\* a handler that broadcast or changed the room took a step of the game
effective(room, res) == res.room # NoRoom /\ (res.room.emits > 0 \/ settle(res.room) # room)

Init ==
    /\ rooms = [c \in Codes |-> NoRoom]
    /\ open = Sockets
    /\ moves = 0

CreateRoom(s, code) ==
    /\ s \in open
    /\ ~Exists(code)
    /\ rooms' = [rooms EXCEPT ![code] = settle(createRoom(s).room)]
    /\ moves' = 0
    /\ UNCHANGED open

CreateRoomCpu(s, code, difficulty, seed, color, starterIndex) ==
    /\ s \in open
    /\ ~Exists(code)
    /\ rooms' = [rooms EXCEPT ![code] =
                    settle(createRoomCpu(s, difficulty, seed, color, starterIndex).room)]
    /\ moves' = 0
    /\ UNCHANGED open

JoinRoom(s, code, seed, color, starterIndex) ==
    /\ s \in open
    /\ rooms' = [rooms EXCEPT ![code] =
                    settle(joinRoom(rooms[code], s, seed, color, starterIndex).room)]
    /\ UNCHANGED <<open, moves>>

DealDone(s, code, gameId) ==
    /\ s \in open
    /\ rooms' = [rooms EXCEPT ![code] = settle(dealDone(rooms[code], s, gameId).room)]
    /\ UNCHANGED <<open, moves>>

PlayCard(s, code, cardId, chosenColor, seed) ==
    /\ s \in open
    /\ LET res == playCard(rooms[code], s, cardId, chosenColor, seed)
       IN  /\ effective(rooms[code], res) => moves < MaxMoves
           /\ rooms' = [rooms EXCEPT ![code] = settle(res.room)]
           /\ moves' = IF effective(rooms[code], res) THEN moves + 1 ELSE moves
    /\ UNCHANGED open

DrawCard(s, code, seed) ==
    /\ s \in open
    /\ LET res == drawCard(rooms[code], s, seed)
       IN  /\ effective(rooms[code], res) => moves < MaxMoves
           /\ rooms' = [rooms EXCEPT ![code] = settle(res.room)]
           /\ moves' = IF effective(rooms[code], res) THEN moves + 1 ELSE moves
    /\ UNCHANGED open

YellUno(s, code) ==
    /\ s \in open
    /\ rooms' = [rooms EXCEPT ![code] = settle(yellUno(rooms[code], s).room)]
    /\ UNCHANGED <<open, moves>>

Seated(s, c) == Exists(c) /\ s \in {rooms[c].players[1], rooms[c].players[2]}

Disconnect(s) ==
    /\ s \in open
    \* explored for sockets seated in a room; for any other socket the
    \* handler finds no room to change
    /\ \E c \in DOMAIN rooms : Seated(s, c)
    /\ open' = open \ {s}
    /\ rooms' = [c \in DOMAIN rooms |-> IF Seated(s, c) THEN NoRoom ELSE rooms[c]]
    /\ UNCHANGED moves

TurnTimeoutFires(code) ==
    /\ Exists(code)
    /\ turnArmed(rooms[code])
    /\ LET r == turnTimeoutCallback(rooms[code], rooms[code].turnTimeout.player)
       IN  /\ r.emits > 0 => moves < MaxMoves
           /\ rooms' = [rooms EXCEPT ![code] = settle(r)]
           /\ moves' = IF r.emits > 0 THEN moves + 1 ELSE moves
    /\ UNCHANGED open

CpuTimerFires(code, roll, rnd, seed) ==
    /\ Exists(code)
    /\ rooms[code].cpuTimer
    /\ moves < MaxMoves
    /\ \E chosen \in cpuChoices(rooms[code], roll) :
          rooms' = [rooms EXCEPT ![code] =
                       settle(cpuTimerCallback(rooms[code], roll, chosen, rnd, seed))]
    /\ moves' = moves + 1
    /\ UNCHANGED open

\* ---------------------------------------------------------------------- INPUTS
\* card ids a client may send for a room: the ids of the cards in its own
\* hand, and 0, the id of no card
handIds(room, s) == {handOf(room, s)[i].id : i \in DOMAIN handOf(room, s)}
CardIds(room, s) == IF room = NoRoom THEN {0} ELSE handIds(room, s) \cup {0}
\* chosenColor values a client may send: a valid color and none
ChosenColors == {"yellow", Null}
\* difficulty values a client may send
DifficultyInputs == {"medium", "hard", "bogus"}
\* colors that Math.random() selects (first discard, cpuPickColor)
RandomColors == {"red"}
\* gameId values a client may send: the generation of the deal and a stale one
GameIds == 1..2

Next ==
    \/ \E s \in Creators, c \in Codes : CreateRoom(s, c)
    \/ \E s \in Creators, c \in Codes, d \in DifficultyInputs, seed \in Seeds,
          col \in RandomColors, st \in 1..2 : CreateRoomCpu(s, c, d, seed, col, st)
    \/ \E s \in Players, c \in Codes, seed \in Seeds, col \in RandomColors, st \in 1..2 :
          JoinRoom(s, c, seed, col, st)
    \/ \E s \in Players, c \in Codes, g \in GameIds : DealDone(s, c, g)
    \/ \E s \in Players, c \in Codes, seed \in Seeds :
          \E id \in CardIds(rooms[c], s), col \in ChosenColors :
              PlayCard(s, c, id, col, seed)
    \/ \E s \in Players, c \in Codes, seed \in Seeds : DrawCard(s, c, seed)
    \/ \E s \in Players, c \in Codes : YellUno(s, c)
    \/ \E s \in Players : Disconnect(s)
    \/ \E c \in Codes : TurnTimeoutFires(c)
    \/ \E c \in Codes, roll \in BOOLEAN, rnd \in RandomColors, seed \in Seeds :
          CpuTimerFires(c, roll, rnd, seed)

Spec == Init /\ [][Next]_vars

\* --------------------------------------------------------------- SEVERAL ROOMS
\* The registry with two room codes, the rooms taken up to their first
\* turns: creation, join, deal, acknowledgments, turn timeouts, disconnect.
LobbyCodes == {"1000", "2000"}

InitLobby ==
    /\ rooms = [c \in LobbyCodes |-> NoRoom]
    /\ open = Sockets
    /\ moves = 0

NextLobby ==
    \/ \E s \in Creators, c \in LobbyCodes : CreateRoom(s, c)
    \/ \E s \in Creators, c \in LobbyCodes, seed \in Seeds, col \in RandomColors,
          st \in 1..2 : CreateRoomCpu(s, c, "hard", seed, col, st)
    \/ \E s \in Players, c \in LobbyCodes, seed \in Seeds, col \in RandomColors,
          st \in 1..2 : JoinRoom(s, c, seed, col, st)
    \/ \E s \in Players, c \in LobbyCodes, g \in GameIds : DealDone(s, c, g)
    \/ \E s \in Players : Disconnect(s)
    \/ \E c \in LobbyCodes : TurnTimeoutFires(c)

SpecLobby == InitLobby /\ [][NextLobby]_vars

\* ------------------------------------------------------------ GAME POSITIONS
\* A second specification for the rules on piles (drawOne, canPlay): it starts
\* from any position of a game in play between s1 and s2 over a few cards,
\* and lets the two players play and draw.

\* number of cards that lie in the piles and in the hand of s1
MaxPile == 5

\* card k of a position: colors alternate, every third card is a skip, the
\* others are numbers 0 and 1
pileCard(k) ==
    IF k % 3 = 0 THEN Card(k, ColorNames[(k % 2) + 1], NoValue, "skip")
    ELSE Card(k, ColorNames[(k % 2) + 1], (k \div 2) % 2, "number")

PileCards == [k \in 1..MaxPile |-> pileCard(k)]

\* sequences of n distinct cards
pileSeqs(n) ==
    {[i \in 1..n |-> PileCards[f[i]]] :
        f \in {g \in [1..n -> 1..MaxPile] : \A i, j \in 1..n : i # j => g[i] # g[j]}}

seqIds(s) == {s[i].id : i \in DOMAIN s}

\* a room in play whose draw pile is deck and whose discard pile is discard:
\* s1 holds the remaining cards and the turn, s2 a number and a wild; the
\* timeout of s1 is pending
pileRoom(deck, discard) ==
    [newRoom("s1", "s2", FALSE, Null, "started") EXCEPT
        !.deck = deck,
        !.discardPile = discard,
        !.hands = [p \in {"s1", "s2"} |->
                      IF p = "s1"
                      THEN SelectSeq(PileCards,
                               LAMBDA c : c.id \notin seqIds(deck) \cup seqIds(discard))
                      ELSE <<Card(MaxPile + 1, "yellow", 0, "number"),
                             Card(MaxPile + 2, NoColor, NoValue, "wild")>>],
        !.currentTurn = "s1",
        !.turnTimeout = [player |-> "s1", fired |-> FALSE],
        !.gameId = 1,
        !.phase = "playing",
        !.dealAcks = [g \in {0, 1} |-> IF g = 1 THEN {"s1", "s2"} ELSE {}]]

\* the positions: the discard pile holds a card, s1 holds a card, and no card
\* lies in two places
Positions ==
    {pileRoom(p[1], p[2]) :
        p \in {q \in (UNION {pileSeqs(n) : n \in 0..(MaxPile - 2)})
                       \X (UNION {pileSeqs(n) : n \in 1..(MaxPile - 1)}) :
                  /\ seqIds(q[1]) \cap seqIds(q[2]) = {}
                  /\ Len(q[1]) + Len(q[2]) < MaxPile}}

InitPiles ==
    /\ rooms \in {[c \in Codes |-> settle(r)] : r \in Positions}
    /\ open = Sockets
    /\ moves = 0

NextPiles ==
    \/ \E s \in Players, c \in Codes, seed \in Seeds :
          \E id \in CardIds(rooms[c], s), col \in ChosenColors :
              PlayCard(s, c, id, col, seed)
    \/ \E s \in Players, c \in Codes, seed \in Seeds : DrawCard(s, c, seed)

SpecPiles == InitPiles /\ [][NextPiles]_vars

\* ------------------------------------------------------------ PLAY RESOLUTIONS
\* Every call of applyPlay that a handler can make in a room: the room as
\* applyPlay receives it (pre) and its arguments.  playCard calls it with
\* the room it found; drawCard and cpuTakeTurn call it after their draw, and
\* cpuTakeTurn after its UNO call.
PlayCall(pre, actor, cardId, color, seed, auto) ==
    [pre |-> pre, actor |-> actor, cardId |-> cardId, color |-> color,
     seed |-> seed, auto |-> auto]

turnOpen(room, s) ==
    room # NoRoom /\ ~room.isGameOver /\ room.phase = "playing" /\ s = room.currentTurn

directPlays(room) ==
    {PlayCall(room, s, id, col, seed, FALSE) :
        s \in {q \in Players : turnOpen(room, q)},
        id \in CardIds(room, room.currentTurn), col \in ChosenColors, seed \in Seeds}

autoPlays(room) ==
    {PlayCall(drawn(room, x[1], x[2]).room, x[1], drawn(room, x[1], x[2]).card.id,
              Null, x[2], TRUE) :
        x \in {y \in Players \X Seeds :
                 /\ turnOpen(room, y[1])
                 /\ drawn(room, y[1], y[2]).card # NoCard
                 /\ canAutoPlay(drawn(room, y[1], y[2]).card,
                                topOf(drawn(room, y[1], y[2]).room))}}

cpuPlays(room) ==
    IF room = NoRoom THEN {}
    ELSE IF ~(room.cpuTimer /\ turnOpen(room, CPU_ID)) THEN {}
    ELSE UNION {
        LET r2 == cpuReady([room EXCEPT !.cpuTimer = FALSE], x[1])
            d == cpuDrawn(r2, x[3])
        IN  {PlayCall(r2, CPU_ID, ch.id, 
                      IF ch.type = "wild" \/ ch.type = "wild4"
                      THEN cpuPickColor(r2, x[2]) ELSE Null, x[3], FALSE) :
                ch \in cpuChoices(room, x[1]) \ {NoCard}}
            \cup
            (IF NoCard \in cpuChoices(room, x[1]) /\ d.card # NoCard
                /\ canAutoPlay(d.card, topOf(r2))
             THEN {PlayCall(d.room, CPU_ID, d.card.id, Null, x[3], TRUE)} ELSE {})
        : x \in BOOLEAN \X RandomColors \X Seeds}

Plays(room) == directPlays(room) \cup autoPlays(room) \cup cpuPlays(room)

resolved(p) == applyPlay(p.pre, p.actor, p.cardId, p.color, p.seed)

\* the card a call plays, as it lies in the hand
playedCard(p) == handOf(p.pre, p.actor)[findIndex(handOf(p.pre, p.actor), p.cardId)]

Rooms == {rooms[c] : c \in {d \in DOMAIN rooms : Exists(d)}}

\* -------------------------------------------------------------------- CLAIMS
\* sum of the sizes of the room's hands
RECURSIVE sumHands(_, _)
sumHands(hands, ids) ==
    IF ids = {} THEN 0
    ELSE LET p == CHOOSE q \in ids : TRUE
         IN  Len(hands[p]) + sumHands(hands, ids \ {p})

cardCount(room) ==
    sumHands(room.hands, DOMAIN room.hands) + Len(room.deck) + Len(room.discardPile)

\* C1: while a room is in phase playing, the sizes of its hands, its draw
\* pile and its discard pile sum to the size of a freshly built deck (108
\* with the source's deck parameters).
C1_CardsConserved ==
    \A r \in Rooms : r.phase = "playing" => cardCount(r) = DeckSize

\* a playing room whose draw pile was emptied and recycled down to nothing:
\* every card but the discard top is in a hand
C1_Witness ==
    \E r \in Rooms : /\ r.phase = "playing" /\ moves > 0
                     /\ Len(r.deck) = 0 /\ Len(r.discardPile) = 1

\* the play leaves exactly one card and the actor's flag is not set
unoMissed(p) ==
    /\ Len(handOf(p.pre, p.actor)) = 2
    /\ ~p.pre.unoStatus[p.actor]

\* C2 (as claimed): a play that leaves the actor one card without the flag
\* set ends with the actor holding exactly 3 cards and the game not over.
C2_PenaltyAlwaysThree ==
    \A r \in Rooms : \A p \in Plays(r) :
        LET res == resolved(p)
        IN  (res.ok /\ unoMissed(p)) =>
                /\ Len(handOf(res.room, p.actor)) = 3
                /\ ~res.room.isGameOver

\* C2 (amended): such a play ends with the game not over and the actor
\* holding 3 cards, except that the actor holds 2 when the draw pile was
\* empty and the discard pile held only its top card before the play (only
\* one card can then be recycled).
C2_PenaltyWhenAvailable ==
    \A r \in Rooms : \A p \in Plays(r) :
        LET res == resolved(p)
        IN  (res.ok /\ unoMissed(p)) =>
                /\ ~res.room.isGameOver
                /\ Len(handOf(res.room, p.actor)) =
                      IF Len(p.pre.deck) = 0 /\ Len(p.pre.discardPile) = 1 THEN 2 ELSE 3

\* a room where a play can miss the call while the draw pile is empty
C2_Witness ==
    \E r \in Rooms : \E p \in Plays(r) :
        resolved(p).ok /\ unoMissed(p) /\ Len(p.pre.deck) = 0

\* C3 (as claimed): at most one of the two timers is armed, and an armed
\* timer belongs to the current turn holder.
C3_TimersExclusive ==
    \A r \in Rooms :
        /\ ~(turnArmed(r) /\ r.cpuTimer)
        /\ turnArmed(r) => (r.currentTurn # CPU_ID /\ r.currentTurn = r.turnTimeout.player)
        /\ r.cpuTimer => r.currentTurn = CPU_ID

\* the occupant of the seat that p does not sit in
seatOpponent(room, p) == IF room.players[1] = p THEN room.players[2] ELSE room.players[1]

\* the firing finds the room playing, not over, and the turn still with the
\* player captured when the timer was armed
liveTimeout(r) ==
    ~r.isGameOver /\ r.phase = "playing" /\ r.currentTurn = r.turnTimeout.player

\* C4: a pending human turn-timeout that fires changes the room exactly when
\* the room is playing, not over and the turn holder is the captured player:
\* then the turn passes to the occupant of the other seat, the room is
\* broadcast and the schedule of the new holder is armed (computer schedule
\* for the computer, a fresh timeout for a human); otherwise the firing
\* leaves the room as it was and broadcasts nothing.  (A deleted room has no
\* pending timeout: disconnect clears it before deleting.)
C4_TimeoutLiveOrNoOp ==
    \A r \in Rooms :
        turnArmed(r) =>
            LET captured == r.turnTimeout.player
                res == turnTimeoutCallback(r, captured)
            IN  IF liveTimeout(r)
                THEN /\ res.currentTurn = seatOpponent(r, captured)
                     /\ res.emits = 1 /\ res.stamped
                     /\ IF res.currentTurn = CPU_ID
                        THEN res.cpuTimer /\ ~turnArmed(res)
                        ELSE turnArmed(res) /\ res.turnTimeout.player = res.currentTurn
                ELSE [res EXCEPT !.turnTimeout = r.turnTimeout] = r

\* a timeout fired after the turn had left its player: the handle is spent
\* and the room is otherwise as it was
C4_Witness ==
    \E r \in Rooms : r.turnTimeout.fired /\ r.phase = "playing"
                     /\ r.currentTurn # r.turnTimeout.player

\* a timeout fired on its player's turn and handed the turn to the computer
C4_LiveFiringReached ==
    \E r \in Rooms : r.message = <<"turn expired">> /\ r.cpuTimer /\ r.currentTurn = CPU_ID

\* C5: a room in phase playing has the acknowledgment of the occupant of each
\* seat recorded for its current generation (the computer is recorded by the
\* deal), and a deal-acknowledged intent carrying another generation leaves
\* the room exactly as it was, with no broadcast.
C5_DealBarrier ==
    \A r \in Rooms :
        /\ r.phase = "playing" =>
              (r.players[1] \in ackMapOf(r) /\ r.players[2] \in ackMapOf(r))
        /\ \A s \in Sockets, g \in 0..(r.gameId + 1) :
              g # r.gameId => dealDone(r, s, g).room = r

\* two different humans are seated and both acknowledgments opened the game
C5_Witness ==
    \E r \in Rooms : /\ r.phase = "playing" /\ ~r.isCpuGame
                     /\ r.players[1] # r.players[2]
                     /\ {r.players[1], r.players[2]} \subseteq ackMapOf(r)

\* C6 (as claimed): a room whose phase is gameover keeps that phase for as
\* long as it is registered.
C6_GameoverIsTerminal ==
    [][\A c \in Codes :
          (rooms[c] # NoRoom /\ rooms[c].phase = "gameover" /\ rooms'[c] # NoRoom)
              => rooms'[c].phase = "gameover"]_vars

\* chosenColor values of any kind: a valid color, none, and a string that
\* is no color
AnyColors == ChosenColors \cup {"purple"}

\* card ids that tell the outcomes of a play-card intent of s apart: the
\* cards s holds, the cards the turn holder holds, the card on top of the
\* discard pile and the id of no card
probeIds(room, s) ==
    handIds(room, s) \cup handIds(room, room.currentTurn) \cup {topOf(room).id, 0}

isWild(card) == card.type = "wild" \/ card.type = "wild4"

\* the card with this id in the hand of s, NoCard when s holds no such card
heldCard(room, s, id) ==
    IF id \in handIds(room, s) THEN handOf(room, s)[findIndex(handOf(room, s), id)]
    ELSE NoCard

\* the play-card intent falls under one of the rejections of C7
rejectedPlay(r, s, id, col) ==
    \/ r.phase # "playing"
    \/ s # r.currentTurn
    \/ heldCard(r, s, id) = NoCard
    \/ isWild(heldCard(r, s, id)) /\ col \notin validColors
    \/ ~isWild(heldCard(r, s, id)) /\ ~canPlay(heldCard(r, s, id), topOf(r))

\* C7: a rejected intent leaves the room exactly as it was and broadcasts
\* nothing: a play-card or draw-card by a socket that is not the turn holder
\* or outside phase playing, a play of a card not in hand, of a non-wild card
\* that does not match the discard top, of a wild without a valid color, a
\* join of a missing or full room, a call-last-card with more than two
\* cards, and any intent answered with an error message.
C7_RejectionsChangeNothing ==
    /\ \A s \in Sockets, seed \in Seeds, col \in RandomColors, st \in 1..2 :
          /\ joinRoom(NoRoom, s, seed, col, st).room = NoRoom
          /\ joinRoom(NoRoom, s, seed, col, st).error # ""
    /\ \A r \in Rooms : \A s \in Sockets, seed \in Seeds :
          /\ \A id \in probeIds(r, s), col \in AnyColors :
                LET res == playCard(r, s, id, col, seed)
                IN  (rejectedPlay(r, s, id, col) \/ res.error # "") => res.room = r
          /\ LET res == drawCard(r, s, seed)
             IN  (r.phase # "playing" \/ s # r.currentTurn \/ res.error # "")
                     => res.room = r
          /\ \A col \in RandomColors, st \in 1..2 :
                LET res == joinRoom(r, s, seed, col, st)
                IN  (r.players[2] # Null \/ res.error # "") => res.room = r
          /\ LET res == yellUno(r, s)
             IN  (Len(handOf(r, s)) > 2 \/ res.error # "") => res.room = r

\* a playing room of two humans whose turn holder holds a card that does not
\* match the top and a wild, after at least one accepted move: every kind of
\* rejection can be provoked there
C7_Witness ==
    \E r \in Rooms :
        /\ r.phase = "playing" /\ ~r.isGameOver /\ moves > 0
        /\ \E id \in handIds(r, r.currentTurn) :
              playCard(r, r.currentTurn, id, "yellow", 1).error = "You can't play that card."
        /\ \E id \in handIds(r, r.currentTurn) :
              playCard(r, r.currentTurn, id, Null, 1).error = "Must choose a color for wild."
        /\ playCard(r, r.currentTurn, 0, Null, 1).error = "Card not in hand."
        /\ \E s \in Players : drawCard(r, s, 1).error = "Not your turn."
        /\ \E s \in Players : joinRoom(r, s, 1, "red", 1).error = "Room is full."
        /\ \E s \in Players : yellUno(r, s).error # ""

\* the ids of the cards that left the hand of p in a step
lostIds(pre, post, p) == handIds(pre, p) \ handIds(post, p)

\* the ids of the cards of the room that lie in no hand
pileIds(room) ==
    {room.deck[i].id : i \in DOMAIN room.deck}
        \cup {room.discardPile[i].id : i \in DOMAIN room.discardPile}

\* a step of one deal put a new card on the discard pile or took a card out
\* of a hand
cardMoved(pre, post) ==
    /\ pre # NoRoom /\ post # NoRoom /\ pre.gameId = post.gameId
    /\ \/ topOf(post).id # topOf(pre).id
       \/ \E p \in DOMAIN pre.hands : lostIds(pre, post, p) # {}

\* the move is the play of the new discard top by the turn holder of a
\* playing room: a wild carrying a valid color, or a card that canPlay
\* accepts on the previous top (draws and recycling keep the top in place);
\* the card comes from the holder's hand, or from the piles when the holder
\* drew it in the same step
legalMove(pre, post) ==
    LET card == topOf(post)
        holder == pre.currentTurn
    IN  /\ pre.phase = "playing" /\ ~pre.isGameOver
        /\ \A p \in DOMAIN pre.hands :
              lostIds(pre, post, p) \subseteq (IF p = holder THEN {card.id} ELSE {})
        /\ card.id \in handIds(pre, holder) \cup pileIds(pre)
        /\ card.id # topOf(pre).id
        /\ IF isWild(card) THEN card.color \in validColors
           ELSE canPlay(card, topOf(pre))

\* C8: a card goes from a hand to the discard pile only in a room that is
\* playing and not over, from the hand of the turn holder, and only a wild
\* or wild-draw-four played with one of the four valid colors or a card that
\* canPlay accepts on the discard top; a play-card intent that changes the
\* room comes from the turn holder, names a card of its hand and puts that
\* card on top.
C8_OnlyLegalPlays ==
    /\ [](\A r \in Rooms : \A s \in Sockets, seed \in Seeds :
            \A id \in probeIds(r, s), col \in AnyColors :
                LET res == playCard(r, s, id, col, seed).room
                IN  res # r =>
                      /\ r.phase = "playing" /\ ~r.isGameOver /\ s = r.currentTurn
                      /\ id \in handIds(r, s)
                      /\ IF isWild(heldCard(r, s, id)) THEN col \in validColors
                         ELSE canPlay(heldCard(r, s, id), topOf(r))
                      /\ topOf(res).id = id)
    /\ [][\A c \in Codes :
            cardMoved(rooms[c], rooms'[c]) => legalMove(rooms[c], rooms'[c])]_vars

\* a wild was played with a color and lies on top of the discard pile
C8_Witness ==
    \E r \in Rooms : /\ moves > 0 /\ Len(r.discardPile) > 1
                     /\ topOf(r).type = "wild" /\ topOf(r).color = "yellow"

\* C9 (as claimed): after a non-winning play the turn stays with the actor
\* for every card that is not a plain number card (Skip, Reverse, Draw-Two,
\* Wild, Wild-Draw-Four) and passes to the opponent for a number card.
C9_ActionCardsKeepTurn ==
    \A r \in Rooms : \A p \in Plays(r) :
        LET res == resolved(p)
        IN  (res.ok /\ ~res.gameOver) =>
                res.room.currentTurn =
                    IF playedCard(p).type = "number"
                    THEN seatOpponent(p.pre, p.actor) ELSE p.actor

\* C9 (amended): after a non-winning play the turn stays with the actor for
\* Skip, Reverse, Draw-Two and Wild-Draw-Four, and passes to the occupant of
\* the other seat for a plain number card and for a plain Wild.
C9_TurnRule ==
    \A r \in Rooms : \A p \in Plays(r) :
        LET res == resolved(p)
        IN  (res.ok /\ ~res.gameOver) =>
                res.room.currentTurn =
                    IF playedCard(p).type \in {"skip", "reverse", "draw2", "wild4"}
                    THEN p.actor ELSE seatOpponent(p.pre, p.actor)

\* the first move of a game between two humans was a plain Wild, and the
\* turn is with the player who still holds a full hand
C9_Witness ==
    \E r \in Rooms :
        /\ moves = 1 /\ ~r.isCpuGame /\ r.players[1] # r.players[2]
        /\ r.message = <<"played", "Wild", "yellow">>
        /\ Len(handOf(r, r.currentTurn)) = HandSize
        /\ Len(handOf(r, seatOpponent(r, r.currentTurn))) = HandSize - 1

\* the number of cards the card's effect asks the opponent to draw
forcedDraws(card) ==
    IF card.type = "draw2" THEN 2 ELSE IF card.type = "wild4" THEN 4 ELSE 0

\* by how much the hand of the actor's opponent grows in a play
growth(p, res) ==
    Len(handOf(res.room, seatOpponent(p.pre, p.actor)))
        - Len(handOf(p.pre, seatOpponent(p.pre, p.actor)))

\* a Wild-Draw-Four lies on top carrying the chosen color
wild4OnTop(p, res) ==
    playedCard(p).type = "wild4" =>
        topOf(res.room) = [playedCard(p) EXCEPT !.color = p.color]

\* C10 (as claimed): in a non-winning play the opponent's hand grows by
\* exactly 2 for a Draw-Two, exactly 4 for a Wild-Draw-Four and 0 for any
\* other card, and a Wild-Draw-Four lies on top with the chosen color.
C10_ExactDraws ==
    \A r \in Rooms : \A p \in Plays(r) :
        LET res == resolved(p)
        IN  (res.ok /\ ~res.gameOver) =>
                /\ growth(p, res) = forcedDraws(playedCard(p))
                /\ wild4OnTop(p, res)

\* C10 (amended): in a non-winning play against an opponent of another
\* identity, the opponent's hand grows by 2 for a Draw-Two and by 4 for a
\* Wild-Draw-Four, or by fewer when the cards run out (the draw pile then
\* ends empty and the discard pile holds only its top), and by 0 for any
\* other card; when one identity holds both seats nobody draws for the
\* effect (its hand loses the played card, and grows only by a penalty); a
\* Wild-Draw-Four lies on top with the chosen color.
C10_DrawsWhileCardsLast ==
    \A r \in Rooms : \A p \in Plays(r) :
        LET res == resolved(p)
            n == forcedDraws(playedCard(p))
        IN  (res.ok /\ ~res.gameOver) =>
                /\ wild4OnTop(p, res)
                /\ IF seatOpponent(p.pre, p.actor) # p.actor
                   THEN /\ growth(p, res) >= 0 /\ growth(p, res) <= n
                        /\ growth(p, res) < n =>
                              (Len(res.room.deck) = 0 /\ Len(res.room.discardPile) = 1)
                   ELSE unoMissed(p) \/ growth(p, res) = -1

\* a Draw-Two or Wild-Draw-Four can be played against another identity when
\* fewer cards are left than it asks for
C10_Witness ==
    \E r \in Rooms : \E p \in Plays(r) :
        /\ resolved(p).ok /\ ~resolved(p).gameOver
        /\ seatOpponent(p.pre, p.actor) # p.actor
        /\ forcedDraws(playedCard(p)) > 0
        /\ growth(p, resolved(p)) < forcedDraws(playedCard(p))

\* a Wild-Draw-Four was played in full: the opponent holds four more cards
C10_FullDrawReached ==
    \E r \in Rooms :
        /\ moves = 1 /\ r.players[1] # r.players[2] /\ r.specialEffect = "wild4"
        /\ Len(handOf(r, seatOpponent(r, r.currentTurn))) = HandSize + 4

\* the hands of everybody but p are in post what they were in pre
othersKeepHands(pre, post, p) ==
    \A q \in (DOMAIN pre.hands) \ {p} : handOf(post, q) = handOf(pre, q)

\* C11: a play (direct, auto-played after a draw, or by the computer) of the
\* actor's only card makes the room gameover with the actor as winner and
\* both timers disarmed, and applies no effect of the card: every other hand
\* and the turn holder are as before, also for a Draw-Two or Wild-Draw-Four;
\* and whenever a winner is recorded, the winner's hand is empty.
C11_WinEndsGame ==
    \A r \in Rooms :
        /\ r.winner # Null => (Len(handOf(r, r.winner)) = 0 /\ r.isGameOver)
        /\ \A p \in Plays(r) :
              LET res == resolved(p)
              IN  (res.ok /\ Len(handOf(p.pre, p.actor)) = 1) =>
                      /\ res.gameOver
                      /\ res.room.phase = "gameover" /\ res.room.isGameOver
                      /\ res.room.winner = p.actor
                      /\ Len(handOf(res.room, p.actor)) = 0
                      /\ ~turnArmed(res.room) /\ ~res.room.cpuTimer
                      /\ res.room.currentTurn = p.pre.currentTurn
                      /\ othersKeepHands(p.pre, res.room, p.actor)

\* a game was won with a Draw-Two or a Wild-Draw-Four as the last card
C11_Witness ==
    \E r \in Rooms :
        /\ r.phase = "gameover" /\ r.winner # Null
        /\ topOf(r).type \in {"draw2", "wild4"}
        /\ Len(handOf(r, seatOpponent(r, r.winner))) > 0

\* the outcomes of a computer turn that is due, paired with the roll of
\* cpuShouldCallUno and the card cpuChooseCard returned
cpuTurns(r) ==
    IF ~(r.cpuTimer /\ turnOpen(r, CPU_ID)) THEN {}
    ELSE UNION {
        {[roll |-> x[1], chosen |-> ch,
          post |-> cpuTimerCallback(r, x[1], ch, x[2], x[3])] :
            ch \in cpuChoices(r, x[1])}
        : x \in BOOLEAN \X RandomColors \X Seeds}

\* C12 (as claimed): right after a play or a draw by an actor, human or
\* computer, card kept or auto-played, that actor's last-card flag is false.
C12_FlagConsumed ==
    \A r \in Rooms :
        /\ \A p \in Plays(r) : resolved(p).ok => ~resolved(p).room.unoStatus[p.actor]
        /\ \A s \in Players, seed \in Seeds :
              turnOpen(r, s) => ~drawCard(r, s, seed).room.unoStatus[s]
        /\ \A t \in cpuTurns(r) : ~t.post.unoStatus[CPU_ID]

\* the same for the human actors and the plays of the computer alone
C12_FlagConsumedButCpuDraw ==
    \A r \in Rooms :
        /\ \A p \in Plays(r) : resolved(p).ok => ~resolved(p).room.unoStatus[p.actor]
        /\ \A s \in Players, seed \in Seeds :
              turnOpen(r, s) => ~drawCard(r, s, seed).room.unoStatus[s]

\* the step took the set flag of s away
flagCleared(pre, post, s) ==
    /\ pre # NoRoom /\ post # NoRoom /\ pre.gameId = post.gameId
    /\ pre.unoStatus[s] /\ ~post.unoStatus[s]

\* the step was a play or a draw made on the turn of s
ownMove(pre, post, s) ==
    /\ pre.phase = "playing" /\ ~pre.isGameOver /\ pre.currentTurn = s
    /\ post.message[1] \in {"played", "gameover", "drew", "no cards"}

\* C13: a call-last-card intent sets the flag only for an actor holding two
\* cards or fewer (the computer calls only with exactly two); a set flag
\* stays set until its player's own play or draw; and a play by an actor
\* whose flag is set and who holds exactly two cards leaves that actor with
\* exactly one card: no penalty card is drawn in that resolution.
C13_CallShieldsPlay ==
    /\ [](\A r \in Rooms :
            /\ \A s \in Sockets :
                  yellUno(r, s).room # r => Len(handOf(r, s)) <= 2
            /\ \A roll \in BOOLEAN :
                  (cpuReady(r, roll).unoStatus[CPU_ID] /\ ~r.unoStatus[CPU_ID])
                      => Len(handOf(r, CPU_ID)) = 2
            /\ \A p \in Plays(r) :
                  LET res == resolved(p)
                  IN  (res.ok /\ p.pre.unoStatus[p.actor]
                          /\ Len(handOf(p.pre, p.actor)) = 2) =>
                        /\ Len(handOf(res.room, p.actor)) = 1
                        /\ ~res.gameOver
                        /\ res.room.message[1] = "played")
    /\ [][\A c \in Codes : \A s \in Sockets :
            flagCleared(rooms[c], rooms'[c], s) => ownMove(rooms[c], rooms'[c], s)]_vars

\* a human holds a single card in a game that goes on: the call shielded
\* the play that left it
C13_Witness ==
    \E r \in Rooms : \E s \in Players :
        /\ s \in {r.players[1], r.players[2]}
        /\ r.phase = "playing" /\ ~r.isGameOver
        /\ Len(handOf(r, s)) = 1 /\ ~r.unoStatus[s]

\* neither the draw pile nor the cards under the discard top yield a card
noCardLeft(r) == Len(r.deck) = 0 /\ Len(r.discardPile) <= 1

\* C14 (as claimed): a draw-card by the turn holder that obtains no card
\* reports that no cards are left, adds no card to any hand and passes the
\* turn to the opponent.
C14_EmptyDrawEndsTurn ==
    \A r \in Rooms : \A s \in Players, seed \in Seeds :
        (turnOpen(r, s) /\ noCardLeft(r)) =>
            LET res == drawCard(r, s, seed).room
            IN  /\ res.message = <<"no cards">>
                /\ res.hands = r.hands
                /\ res.currentTurn = seatOpponent(r, s)

\* the part of C14 that the human handler keeps: the report, and no card
\* added to any hand
C14_EmptyDrawReported ==
    \A r \in Rooms : \A s \in Players, seed \in Seeds :
        (turnOpen(r, s) /\ noCardLeft(r)) =>
            LET res == drawCard(r, s, seed).room
            IN  /\ res.message = <<"no cards">>
                /\ res.hands = r.hands
                /\ res.currentTurn = s

\* the computer's draw that obtains no card does pass the turn
C14_CpuEmptyDrawEndsTurn ==
    \A r \in Rooms : \A t \in cpuTurns(r) :
        (t.chosen = NoCard /\ noCardLeft(r)) =>
            /\ t.post.message = <<"cpu no cards">>
            /\ t.post.hands = r.hands
            /\ t.post.currentTurn = seatOpponent(r, CPU_ID)

\* C15: a draw-card by the turn holder that obtains a card: when the card is
\* not a wild and canPlay accepts it on the discard top, it is played in the
\* same step exactly as a play-card of it would be from the room after the
\* draw, it ends on top of the discard pile and is not in the actor's hand;
\* otherwise it is in the actor's hand, which grew by one, the discard top is
\* as before and the turn passes to the opponent.
C15_DrawnCardPlayedOrKept ==
    \A r \in Rooms : \A s \in Players, seed \in Seeds :
        (turnOpen(r, s) /\ drawn(r, s, seed).card # NoCard) =>
            LET d == drawn(r, s, seed)
                res == drawCard(r, s, seed)
            IN  IF ~isWild(d.card) /\ canPlay(d.card, topOf(r))
                THEN /\ res.error = ""
                     /\ res.room = playCard(d.room, s, d.card.id, Null, seed).room
                     /\ topOf(res.room) = d.card
                     /\ d.card.id \notin handIds(res.room, s)
                ELSE /\ res.error = ""
                     /\ d.card.id \in handIds(res.room, s)
                     /\ Len(handOf(res.room, s)) = Len(handOf(r, s)) + 1
                     /\ topOf(res.room) = topOf(r)
                     /\ res.room.currentTurn = seatOpponent(r, s)
                     /\ res.room.message = <<"drew">>

\* the turn holder of a game under way draws a card that is not a wild and
\* matches the top, and the draw-card intent plays it
C15_Witness ==
    \E r \in Rooms : \E s \in Players, seed \in Seeds :
        /\ moves > 0 /\ turnOpen(r, s) /\ r.players[1] # r.players[2]
        /\ drawn(r, s, seed).card # NoCard
        /\ ~isWild(drawn(r, s, seed).card)
        /\ canPlay(drawn(r, s, seed).card, topOf(r))
        /\ drawCard(r, s, seed).room.message[1] = "played"

\* the first move of a game was a draw whose card was kept
C15_KeptReached ==
    \E r \in Rooms :
        /\ moves = 1 /\ r.message = <<"drew">>
        /\ Len(handOf(r, seatOpponent(r, r.currentTurn))) = HandSize + 1

\* a human identity that holds no seat of the room
standIn(r) == CHOOSE h \in Players : h \notin {r.players[1], r.players[2]}

\* the room with the human h in the place of the computer: the same seats,
\* hands, piles, flags and turn holder up to that identity
humanTwin(r, h) ==
    LET ren(x) == IF x = CPU_ID THEN h ELSE x
        back(x) == IF x = h THEN CPU_ID ELSE IF x = CPU_ID THEN h ELSE x
    IN  [r EXCEPT !.players = <<ren(r.players[1]), ren(r.players[2])>>,
                  !.hands = [q \in {ren(p) : p \in DOMAIN r.hands} |-> r.hands[back(q)]],
                  !.currentTurn = ren(r.currentTurn),
                  !.unoStatus = [q \in Ids |-> r.unoStatus[back(q)]],
                  !.isCpuGame = FALSE,
                  !.emits = 0,
                  !.stamped = FALSE]

\* the computer's draw left in c what the human's draw left in t, the human
\* h standing for the computer
sameDraw(c, t, h) ==
    /\ handOf(c, CPU_ID) = handOf(t, h)
    /\ \A q \in (DOMAIN c.hands) \ {CPU_ID} : handOf(c, q) = handOf(t, q)
    /\ c.deck = t.deck /\ c.discardPile = t.discardPile
    /\ c.isGameOver = t.isGameOver /\ c.phase = t.phase
    /\ (IF c.currentTurn = CPU_ID THEN h ELSE c.currentTurn) = t.currentTurn
    /\ c.unoStatus[CPU_ID] = t.unoStatus[h]
    /\ c.specialEffect = t.specialEffect

\* the same, the flag, the special-effect tag and the turn holder left out
sameCards(c, t, h) ==
    /\ handOf(c, CPU_ID) = handOf(t, h)
    /\ \A q \in (DOMAIN c.hands) \ {CPU_ID} : handOf(c, q) = handOf(t, q)
    /\ c.deck = t.deck /\ c.discardPile = t.discardPile
    /\ c.isGameOver = t.isGameOver /\ c.phase = t.phase

\* the computer's draws that are due in r, each with the draw of a human in
\* its place: cpuTakeTurn found no card to play (and may have called UNO)
cpuDrawPairs(r) ==
    IF ~(r.cpuTimer /\ turnOpen(r, CPU_ID)) THEN {}
    ELSE {[cpu |-> cpuDraw(cpuReady([r EXCEPT !.cpuTimer = FALSE], x[1]),
                           topOf(r), x[2]),
           human |-> drawCard(humanTwin(cpuReady([r EXCEPT !.cpuTimer = FALSE], x[1]),
                                        standIn(r)),
                              standIn(r), x[2]).room] :
            x \in {y \in BOOLEAN \X Seeds : NoCard \in cpuChoices(r, y[1])}}

\* C16 (as claimed): a draw by the computer leaves the room that a draw by a
\* human in its place leaves, up to the identity: the same hands and piles,
\* the same turn holder, the actor's flag cleared, the special-effect tag
\* cleared, and the same outcome when no card is left.
C16_CpuDrawsLikeHuman ==
    \A r \in Rooms : \A d \in cpuDrawPairs(r) : sameDraw(d.cpu, d.human, standIn(r))

\* the part of C16 that holds: the same cards in the same places
C16_CpuDrawsSameCards ==
    \A r \in Rooms : \A d \in cpuDrawPairs(r) : sameCards(d.cpu, d.human, standIn(r))

\* the socket s closed in this step
disconnects(s) == s \in open /\ s \notin open'

\* C17: in the step in which a player disconnects, every room that seats the
\* player is broadcast as gameover with both timers disarmed and is removed
\* from the registry, and every other room stays as it was; and an intent
\* addressed to a code that has no room leaves the registry as it is (a
\* removed room has no timer left to fire: both were cleared before the
\* removal).
C17_DisconnectRemovesRooms ==
    /\ [][\A s \in Sockets : disconnects(s) =>
            \A c \in DOMAIN rooms :
                IF Seated(s, c)
                THEN /\ rooms'[c] = NoRoom
                     /\ disconnectRoom(rooms[c]).phase = "gameover"
                     /\ disconnectRoom(rooms[c]).isGameOver
                     /\ ~turnArmed(disconnectRoom(rooms[c]))
                     /\ ~disconnectRoom(rooms[c]).cpuTimer
                     /\ disconnectRoom(rooms[c]).emits = 1
                ELSE rooms'[c] = rooms[c]]_vars
    /\ [](\A s \in Sockets, seed \in Seeds :
            /\ \A id \in 0..DeckSize, col \in AnyColors :
                  playCard(NoRoom, s, id, col, seed).room = NoRoom
            /\ drawCard(NoRoom, s, seed).room = NoRoom
            /\ yellUno(NoRoom, s).room = NoRoom
            /\ \A g \in GameIds : dealDone(NoRoom, s, g).room = NoRoom
            /\ \A col \in RandomColors, st \in 1..2 :
                  joinRoom(NoRoom, s, seed, col, st).room = NoRoom)

\* s2 has disconnected and its room is gone, while the room that s1 plays
\* against the computer goes on with a timer pending
C17_Witness ==
    /\ "s2" \notin open
    /\ \E c \in DOMAIN rooms : ~Exists(c)
    /\ \E c \in DOMAIN rooms :
          /\ Exists(c) /\ rooms[c].phase = "playing"
          /\ (turnArmed(rooms[c]) \/ rooms[c].cpuTimer)


\* the hands the opponent could hold in place of hand without a change of
\* size: the same cards in the reverse order, and as many unknown cards
otherHands(hand) ==
    {[k \in DOMAIN hand |-> hand[Len(hand) + 1 - k]],
     [k \in DOMAIN hand |-> NoCard]}

\* the rooms that differ from room in nothing but the contents of the hand of
\* opponentId, as the seat playerId sees it
sameButHand(room, playerId, opponentId) ==
    IF opponentId \notin DOMAIN room.hands THEN {}
    ELSE {x \in {[room EXCEPT !.hands[opponentId] = h] :
                     h \in otherHands(room.hands[opponentId])} :
             handOf(x, playerId) = handOf(room, playerId)}

\* C18: the view of a recipient holds the recipient's whole hand and the size
\* of the opponent's hand; a room that differs only in the contents of the
\* opponent's hand gives the recipient the same view; and the computer's seat
\* is never a recipient.
C18_ViewHidesOpponentHand ==
    \A c \in DOMAIN rooms : Exists(c) =>
        LET r == rooms[c] IN
        /\ \A index \in 1..2 : r.players[index] = CPU_ID => index \notin recipients(r, Sockets)
        /\ \A index \in recipients(r, Sockets) :
              LET playerId == r.players[index]
                  opponentId == r.players[3 - index]
                  v == gameState(r, c, index)
              IN  /\ v.yourHand = handOf(r, playerId)
                  /\ v.opponentCardCount = Len(handOf(r, opponentId))
                  /\ \A x \in sameButHand(r, playerId, opponentId) :
                        gameState(x, c, index) = v

\* a game in play between two connected people whose hands differ, where the
\* opponent of s1 holds cards that s1's view could tell apart
C18_Witness ==
    \E c \in DOMAIN rooms :
        /\ Exists(c) /\ rooms[c].phase = "playing" /\ moves > 0
        /\ rooms[c].players = <<"s1", "s2">>
        /\ recipients(rooms[c], open) = {1, 2}
        /\ Len(handOf(rooms[c], "s2")) >= 2
        /\ Cardinality(sameButHand(rooms[c], "s1", "s2")) = 2
        /\ \A x \in sameButHand(rooms[c], "s1", "s2") : x # rooms[c]


\* the schedule of the turn holder is pending: the computer's think-time timer
\* for the computer, the timeout captured for the holder for a person
holderArmed(r) ==
    IF r.currentTurn = CPU_ID THEN r.cpuTimer
    ELSE turnArmed(r) /\ r.turnTimeout.player = r.currentTurn

\* C19 (as claimed): in a room that is playing and not over, the schedule of
\* the current turn holder is armed.
C19_TurnNeverStalls ==
    \A r \in Rooms : (r.phase = "playing" /\ ~r.isGameOver) => holderArmed(r)


\* a person has asked for a card when none was left: the turn is still theirs
\* and the timeout armed for it is still pending
C19_Witness ==
    \E r \in Rooms :
        /\ r.phase = "playing" /\ ~r.isGameOver
        /\ r.message = <<"no cards">> /\ Len(r.deck) = 0
        /\ r.currentTurn \in Players
        /\ holderArmed(r)

\* the computer holds the turn after the person's timeout fired, and its
\* think-time timer is pending
C19_AfterTimeoutReached ==
    \E r \in Rooms :
        /\ r.phase = "playing" /\ ~r.isGameOver
        /\ r.message = <<"turn expired">>
        /\ r.currentTurn = CPU_ID /\ holderArmed(r)


\* no timer of the room is pending
noTimer(r) == ~turnArmed(r) /\ ~r.cpuTimer

\* C20: in a room whose phase is waiting, dealing or gameover neither the
\* human timeout nor the computer's timer is armed: a win and a disconnect
\* leave the room in gameover with both disarmed, and a deal acknowledgment
\* that leaves the room dealing arms none.
C20_NoTimerOutsidePlay ==
    /\ \A r \in Rooms : r.phase \in {"waiting", "dealing", "gameover"} => noTimer(r)
    /\ \A r \in Rooms :
          /\ \A p \in Plays(r) :
                resolved(p).room.phase = "gameover" => noTimer(resolved(p).room)
          /\ LET d == disconnectRoom(r)
             IN  d.phase = "gameover" /\ noTimer(d)
          /\ \A s \in Sockets, g \in GameIds :
                LET a == dealDone(r, s, g).room
                IN  a.phase \in {"waiting", "dealing", "gameover"} => noTimer(a)


\* a game against the computer is won while a timer is pending, and the room
\* is left in gameover with no timer
C20_Witness ==
    \E r \in Rooms : \E p \in Plays(r) :
        /\ r.isCpuGame /\ (turnArmed(r) \/ r.cpuTimer)
        /\ resolved(p).ok /\ resolved(p).room.phase = "gameover"
        /\ noTimer(resolved(p).room)

\* a room is dealing with one acknowledgment of two, and no timer is armed
C20_OneAckReached ==
    \E r \in Rooms :
        /\ r.phase = "dealing" /\ r.players = <<"s1", "s2">>
        /\ Cardinality(r.dealAcks[r.gameId]) = 1
        /\ noTimer(r)

\* a room has reached gameover by a win and holds no timer
C20_GameoverReached ==
    \E r \in Rooms : r.phase = "gameover" /\ r.winner # Null /\ noTimer(r)


\* the tag as the claim leaves it after a mutation: wild4 after the play of a
\* Wild-Draw-Four, none after anything else
tagAfter(type) == IF type = "wild4" THEN "wild4" ELSE Null

\* C21 (as claimed): every mutation of a room leaves the special-effect tag
\* at wild4 exactly when it was the play of a Wild-Draw-Four: the tag is set
\* by that play and cleared by a play of another card, a draw by a person or
\* by the computer, a last-card call and a turn timeout.
C21_EffectClearedByNextStep ==
    \A r \in Rooms :
        /\ \A p \in Plays(r) :
              resolved(p).ok =>
                  resolved(p).room.specialEffect = tagAfter(playedCard(p).type)
        /\ \A s \in Players, seed \in Seeds :
              LET res == drawCard(r, s, seed).room
              IN  res.emits > 0 => res.specialEffect = Null
        /\ \A t \in cpuTurns(r) :
              t.post.specialEffect = tagAfter(t.chosen.type)
        /\ \A s \in Players :
              yellUno(r, s).room.emits > 0 => yellUno(r, s).room.specialEffect = Null
        /\ (turnArmed(r) /\ liveTimeout(r)) =>
              turnTimeoutCallback(r, r.turnTimeout.player).specialEffect = Null

\* the part of C21 that holds: a play sets the tag for a Wild-Draw-Four and
\* clears it for any other card, and a person's draw clears it
C21_PlaysAndHumanDrawsSetTag ==
    \A r \in Rooms :
        /\ \A p \in Plays(r) :
              resolved(p).ok =>
                  resolved(p).room.specialEffect = tagAfter(playedCard(p).type)
        /\ \A s \in Players, seed \in Seeds :
              LET res == drawCard(r, s, seed).room
              IN  res.emits > 0 => res.specialEffect = Null

\* what the code keeps: the tag is wild4 only while a Wild-Draw-Four lies on
\* top of the discard pile
C21_EffectOnlyOnWild4Top ==
    \A r \in Rooms : r.specialEffect = "wild4" => topOf(r).type = "wild4"


\* number of shuffles tried for the opening card of a deal
MaxDealSeed == 17

\* seeds of the shuffle tried for the opening card
DealSeeds == 1..MaxDealSeed

\* the room as the deal leaves it when s joins the waiting room r
dealt(r, s, seed, color) == joinRoom(r, s, seed, color, 1).room

\* the discard pile has a top and the top has one of the colors
topColored(r) == Len(r.discardPile) >= 1 /\ topOf(r).color \in validColors

\* C22: a room in phase dealing, playing or gameover has a discard pile that
\* is not empty and whose top carries one of the colors; a deal that opens
\* with a wild gives it a color, and a played wild carries the chosen color.
C22_DiscardTopColored ==
    \A r \in Rooms :
        /\ r.phase \in {"dealing", "playing", "gameover"} => topColored(r)
        /\ \A p \in Plays(r) :
              resolved(p).ok =>
                  /\ topColored(resolved(p).room)
                  /\ (isWild(playedCard(p)) /\ p.actor # CPU_ID)
                        => topOf(resolved(p).room).color = p.color
        /\ (r.phase = "waiting") =>
              \A seed \in DealSeeds, color \in validColors :
                  LET d == dealt(r, "s2", seed, color)
                  IN  /\ topColored(d)
                      /\ isWild(topOf(d)) => topOf(d).color = color

\* a played wild lies on top of the discard pile of a room in play, with the
\* color chosen for it
C22_Witness ==
    \E r \in Rooms :
        /\ r.phase = "playing" /\ moves > 0
        /\ isWild(topOf(r)) /\ topOf(r).color = "yellow" /\ topColored(r)

\* some shuffle opens a deal with a wild, which gets its color at deal time
C22_OpeningWildReached ==
    \E r \in Rooms :
        /\ r.phase = "waiting"
        /\ \E seed \in DealSeeds : isWild(topOf(dealt(r, "s2", seed, "yellow")))


\* the room d as the claim describes it right after a deal that started from
\* generation g: HandSize stands for the 7 cards of a hand
dealShape(g, d) ==
    /\ d.phase = "dealing" /\ d.gameId = g + 1
    /\ d.dealAcks[d.gameId] = (IF d.isCpuGame THEN {CPU_ID} ELSE {})
    /\ \A i \in 1..2 : Len(handOf(d, d.players[i])) = HandSize
    /\ Len(d.discardPile) = 1
    /\ Len(d.deck) = DeckSize - 2 * HandSize - 1
    /\ d.currentTurn \in {d.players[1], d.players[2]}
    /\ noTimer(d)

\* the rooms a deal can leave: a join of the waiting room r, or a new room
\* against the computer
dealsOf(r) ==
    {joinRoom(r, s, seed, color, st).room :
        s \in Players, seed \in Seeds, color \in RandomColors, st \in 1..2}

cpuDeals ==
    {createRoomCpu(s, diff, seed, color, st).room :
        s \in Creators, diff \in DifficultyInputs, seed \in Seeds,
        color \in RandomColors, st \in 1..2}

\* C23 (as claimed): right after the deal the generation is one more than
\* before, the acknowledgments of the new generation hold no person (only the
\* computer in a computer match), each seat holds a full hand, the discard
\* pile holds one card, the draw pile the rest, the turn holder is one of the
\* seats and no timer is armed.
C23_DealShape ==
    /\ \A d \in cpuDeals : dealShape(0, d)
    /\ \A r \in Rooms : r.phase = "waiting" => \A d \in dealsOf(r) : dealShape(r.gameId, d)

\* the part of C23 that holds: the same, for a room joined by another socket
\* than its creator
C23_DealShapeOfTwo ==
    /\ \A d \in cpuDeals : dealShape(0, d)
    /\ \A r \in Rooms : r.phase = "waiting" =>
          \A d \in dealsOf(r) : d.players[1] # d.players[2] => dealShape(r.gameId, d)

\* a waiting room is registered, so that a deal into it is possible
C23_WaitingReached ==
    \E r \in Rooms : r.phase = "waiting" /\ r.players[2] = Null


\* the computer holds a card that canPlay accepts on the top of room r
cpuHasLegal(r) ==
    \E i \in DOMAIN handOf(r, CPU_ID) : canPlay(handOf(r, CPU_ID)[i], topOf(r))

\* the step from r to post put another card on the discard pile
newTop(r, post) == topOf(post).id # topOf(r).id

\* the new top of post was a card of the computer's hand in r that canPlay
\* accepts on the top of r
playedFromHand(r, post) ==
    /\ newTop(r, post)
    /\ \E i \in DOMAIN handOf(r, CPU_ID) :
          /\ handOf(r, CPU_ID)[i].id = topOf(post).id
          /\ canPlay(handOf(r, CPU_ID)[i], topOf(r))

\* a call of cpuTakeTurn outside a turn of the computer changes nothing
cpuIdleOffTurn(r) ==
    ~turnOpen(r, CPU_ID) =>
        \A roll \in BOOLEAN, rnd \in RandomColors, seed \in Seeds :
            \A ch \in cpuChoices(r, roll) \cup {NoCard} :
                cpuTakeTurn(r, roll, ch, rnd, seed) = r

\* C24 (as claimed): the computer changes the room only on its own turn in a
\* playing room that is not over; on such a turn it plays a card exactly when
\* its hand holds a legal card, the card it plays is legal, and otherwise its
\* hand grows by exactly one drawn card.
C24_CpuPlaysIffLegal ==
    \A r \in Rooms :
        /\ cpuIdleOffTurn(r)
        /\ \A t \in cpuTurns(r) :
              /\ newTop(r, t.post) <=> cpuHasLegal(r)
              /\ newTop(r, t.post) => playedFromHand(r, t.post)
              /\ ~cpuHasLegal(r) =>
                    Len(handOf(t.post, CPU_ID)) = Len(handOf(r, CPU_ID)) + 1

\* the outcome of the computer's draw path from r: no card when none is left,
\* else the one card drawn is played at once if it is no wild and legal, or
\* kept while the turn passes to the other seat
cpuDrawOutcome(r, post) ==
    \E seed \in Seeds :
        LET card == drawOne(r, seed).card
        IN  IF card = NoCard
            THEN /\ ~newTop(r, post)
                 /\ handOf(post, CPU_ID) = handOf(r, CPU_ID)
                 /\ post.message = <<"cpu no cards">>
            ELSE IF canAutoPlay(card, topOf(r))
            THEN newTop(r, post) /\ topOf(post).id = card.id
            ELSE /\ ~newTop(r, post)
                 /\ handOf(post, CPU_ID) = Append(handOf(r, CPU_ID), card)
                 /\ post.currentTurn = seatOpponent(r, CPU_ID)

\* C24 (amended): the computer changes the room only on its own turn in a
\* playing room that is not over; with a legal card in hand it plays a legal
\* card of its hand; with none it takes the draw path: one card drawn if a
\* card is left, played at once if it is no wild and legal, kept otherwise.
C24_CpuPlaysOrDraws ==
    \A r \in Rooms :
        /\ cpuIdleOffTurn(r)
        /\ \A t \in cpuTurns(r) :
              IF cpuHasLegal(r) THEN playedFromHand(r, t.post)
              ELSE cpuDrawOutcome(r, t.post)

\* the computer's turn has come with no legal card in its hand, and the card
\* it draws is played at once
C24_Witness ==
    \E r \in Rooms : \E t \in cpuTurns(r) :
        /\ ~cpuHasLegal(r) /\ newTop(r, t.post)
        /\ cpuDrawOutcome(r, t.post)

\* the computer's turn has come with a legal card, and it plays it
C24_PlayReached ==
    \E r \in Rooms : \E t \in cpuTurns(r) : cpuHasLegal(r) /\ playedFromHand(r, t.post)

\* the computer's turn has come with no legal card and with no card left to
\* draw, and its hand stays as it was
C24_NoCardReached ==
    \E r \in Rooms : \E t \in cpuTurns(r) :
        ~cpuHasLegal(r) /\ noCardLeft(r) /\ handOf(t.post, CPU_ID) = handOf(r, CPU_ID)


\* the computer's flag is set in the room that cpuTakeTurn holds once it has
\* decided about the call, on a turn due in r with the random outcome roll
cpuCalls(r, roll) ==
    LET r2 == cpuReady([r EXCEPT !.cpuTimer = FALSE], roll)
    IN  r2.unoStatus[CPU_ID] /\ r2.message = <<"cpu uno">> /\ r2.emits > 0

cpuDue(r) == r.cpuTimer /\ turnOpen(r, CPU_ID)

\* C25: on a due turn the computer sets its last-card flag only with exactly
\* two cards in hand; on the hard tier it sets it on every such turn, on the
\* other tiers the random outcome decides.
C25_CpuCallsAtTwo ==
    \A r \in Rooms : cpuDue(r) =>
        LET two == Len(handOf(r, CPU_ID)) = 2
        IN  /\ \A roll \in BOOLEAN : cpuCalls(r, roll) => two
            /\ (two /\ r.cpuDifficulty = "hard") => \A roll \in BOOLEAN : cpuCalls(r, roll)
            /\ (two /\ r.cpuDifficulty # "hard") =>
                  cpuCalls(r, TRUE) /\ ~cpuCalls(r, FALSE)
            /\ ~two => \A roll \in BOOLEAN :
                  cpuReady([r EXCEPT !.cpuTimer = FALSE], roll).unoStatus
                      = r.unoStatus

\* the hard computer is due with two cards in hand, and calls
C25_Witness ==
    \E r \in Rooms :
        /\ cpuDue(r) /\ r.cpuDifficulty = "hard" /\ Len(handOf(r, CPU_ID)) = 2
        /\ ~r.unoStatus[CPU_ID] /\ cpuCalls(r, FALSE)

\* a computer of another tier is due with two cards in hand
C25_OtherTierReached ==
    \E r \in Rooms :
        /\ cpuDue(r) /\ r.cpuDifficulty # "hard" /\ Len(handOf(r, CPU_ID)) = 2
        /\ cpuCalls(r, TRUE) /\ ~cpuCalls(r, FALSE)


\* C26 (as claimed): drawOne with an empty draw pile and a discard pile of
\* n > 1 cards leaves a draw pile of n - 1 cards, a discard pile of one card
\* and the same top; with a discard pile of at most one card it returns no
\* card and changes nothing.
C26_RecycleLeavesAll ==
    \A r \in Rooms : \A seed \in DealSeeds :
        Len(r.deck) = 0 =>
            LET n == Len(r.discardPile)
                d == drawOne(r, seed)
            IN  IF n > 1
                THEN /\ Len(d.room.deck) = n - 1
                     /\ Len(d.room.discardPile) = 1
                     /\ topOf(d.room) = topOf(r)
                ELSE d.card = NoCard /\ d.room = r

\* C26 (amended): drawOne with an empty draw pile and a discard pile of n > 1
\* cards recycles the n - 1 cards under the top and returns one of them: the
\* draw pile is left with the other n - 2, the discard pile with the same top
\* alone, and nothing else of the room changes; with a discard pile of at most
\* one card it returns no card and changes nothing.
C26_RecycleReturnsOne ==
    \A r \in Rooms : \A seed \in DealSeeds :
        Len(r.deck) = 0 =>
            LET n == Len(r.discardPile)
                d == drawOne(r, seed)
            IN  IF n > 1
                THEN /\ d.card # NoCard
                     /\ Len(d.room.deck) = n - 2
                     /\ d.card.id \notin seqIds(d.room.deck)
                     /\ seqIds(d.room.deck) \cup {d.card.id}
                            = seqIds(Front(r.discardPile))
                     /\ d.room.discardPile = <<Last(r.discardPile)>>
                     /\ d.room = [r EXCEPT !.deck = d.room.deck,
                                           !.discardPile = d.room.discardPile]
                ELSE d.card = NoCard /\ d.room = r

\* the turn holder draws from an empty draw pile under a discard pile of
\* three cards or more: the draw recycles them and leaves all but one of the
\* cards under the top in the draw pile
C26_Witness ==
    \E r \in Rooms : \E s \in Players :
        /\ moves > 0
        /\ turnOpen(r, s) /\ Len(r.deck) = 0 /\ Len(r.discardPile) >= 3
        /\ LET res == drawCard(r, s, 1).room
           IN  /\ res.emits > 0
               /\ Len(res.deck) = Len(r.discardPile) - 2
               /\ Len(handOf(res, s)) + Len(res.discardPile)
                      = Len(handOf(r, s)) + 2

\* the turn holder faces an empty draw pile and a discard pile of one card
C26_NoCardReached ==
    \E r \in Rooms :
        /\ Len(r.deck) = 0 /\ Len(r.discardPile) = 1
        /\ drawOne(r, 1).card = NoCard

\* an empty draw pile lies under a discard pile of four cards
C26_FullRecycleReached ==
    \E r \in Rooms :
        /\ Len(r.deck) = 0 /\ Len(r.discardPile) = MaxPile - 1
        /\ Len(drawOne(r, 1).room.deck) = MaxPile - 3


\* the cards a pair is drawn from: numbers 0 and 1 and the action cards in two
\* colors, and the wilds without a color and with the color given in play
AnyCards ==
    {Card(0, c, v, "number") : c \in {"red", "yellow"}, v \in {0, 1}}
        \cup {Card(0, c, NoValue, t) : c \in {"red", "yellow"},
                                       t \in {"skip", "reverse", "draw2"}}
        \cup {Card(0, c, NoValue, t) : c \in {NoColor, "red", "yellow"},
                                       t \in {"wild", "wild4"}}

\* the rule as the claim states it
matches(card, top) ==
    \/ isWild(card)
    \/ card.color = top.color
    \/ card.type = "number" /\ top.type = "number" /\ card.value = top.value
    \/ card.type # "number" /\ top.type # "number" /\ card.type = top.type

\* C27: for every pair of cards canPlay(card, top) is true exactly when card
\* is a wild or a wild-draw-four, or the colors are equal, or both are numbers
\* of equal value, or both are non-number cards of the same type; it is false
\* when either argument is absent; and it is symmetric for two non-wild cards
\* of equal color or of equal non-number type.  The plays of a room follow
\* it: a card that is no wild is accepted exactly when it matches the top.
C27_CanPlayRule ==
    /\ \A card \in AnyCards, top \in AnyCards : canPlay(card, top) <=> matches(card, top)
    /\ \A card \in AnyCards \cup {NoCard} :
          ~canPlay(card, NoCard) /\ ~canPlay(NoCard, card)
    /\ \A a \in AnyCards, b \in AnyCards :
          (/\ ~isWild(a) /\ ~isWild(b)
           /\ \/ a.color = b.color
              \/ a.type # "number" /\ a.type = b.type)
          => (canPlay(a, b) /\ canPlay(b, a))
    /\ \A r \in Rooms : \A p \in directPlays(r) :
          (heldCard(p.pre, p.actor, p.cardId) # NoCard
              /\ ~isWild(heldCard(p.pre, p.actor, p.cardId)))
          => (resolved(p).ok <=> matches(heldCard(p.pre, p.actor, p.cardId), topOf(p.pre)))

\* a number has been played on a number of the same value and another color
C27_Witness ==
    \E r \in Rooms :
        /\ moves > 0 /\ Len(r.discardPile) >= 2 /\ r.message[1] = "played"
        /\ LET top == r.discardPile[Len(r.discardPile)]
               under == r.discardPile[Len(r.discardPile) - 1]
           IN  /\ top.type = "number" /\ under.type = "number"
               /\ top.value = under.value /\ top.color # under.color
               /\ canPlay(top, under)

\* the turn holder holds a number that the top refuses: another color and
\* another value
C27_RefusalReached ==
    \E r \in Rooms : \E p \in directPlays(r) :
        /\ heldCard(p.pre, p.actor, p.cardId).type = "number"
        /\ topOf(r).type = "number"
        /\ ~resolved(p).ok /\ ~canPlay(heldCard(p.pre, p.actor, p.cardId), topOf(r))


\* how many cards of the deck have this color, value and type
copiesIn(deck, color, value, type) ==
    Cardinality({i \in DOMAIN deck :
        deck[i].color = color /\ deck[i].value = value /\ deck[i].type = type})

\* the deck holds, for each of the colors, one 0, copies of each of
\* 1..maxValue and copies of each action, and pairs wilds and pairs
\* wild-draw-fours without a color, and nothing else; its ids are distinct
deckShape(deck, colors, maxValue, copies, pairs) ==
    /\ Len(deck) = colors * (1 + maxValue * copies + 3 * copies) + 2 * pairs
    /\ \A i, j \in DOMAIN deck : i # j => deck[i].id # deck[j].id
    /\ \A n \in 1..colors :
          /\ copiesIn(deck, ColorNames[n], 0, "number") = 1
          /\ \A v \in 1..maxValue : copiesIn(deck, ColorNames[n], v, "number") = copies
          /\ \A t \in {"skip", "reverse", "draw2"} :
                copiesIn(deck, ColorNames[n], NoValue, t) = copies
    /\ copiesIn(deck, NoColor, NoValue, "wild") = pairs
    /\ copiesIn(deck, NoColor, NoValue, "wild4") = pairs

\* the cards of a room wherever they lie, a wild without the color it got
allCards(r) ==
    LET plain(c) == IF isWild(c) THEN [c EXCEPT !.color = NoColor] ELSE c
        seqs == {r.deck, r.discardPile} \cup {r.hands[p] : p \in DOMAIN r.hands}
    IN  UNION {{plain(s[i]) : i \in DOMAIN s} : s \in seqs}

\* the deck of the source has the stated shape and 108 cards
sourceDeckShape == Len(sourceDeck) = 108 /\ deckShape(sourceDeck, 4, 9, 2, 4)

\* the deck of the model has the same shape at its own sizes
modelDeckShape == deckShape(createDeck, NumColors, MaxValue, Copies, WildPairs)

\* C28: a freshly built deck has 108 cards with pairwise distinct ids: for
\* each of the four colors one 0, two each of 1 to 9, two Skip, two Reverse
\* and two Draw-Two, plus four Wild and four Wild-Draw-Four with no color.
\* The deck of the model has the same shape at its own sizes, and the cards
\* of a room right after a deal are the cards of that deck.
C28_DeckComposition ==
    /\ sourceDeckShape
    /\ modelDeckShape
    /\ \A r \in Rooms :
          (r.phase = "dealing" /\ ~r.isGameOver) =>
              /\ allCards(r) = {createDeck[i] : i \in DOMAIN createDeck}
              /\ cardCount(r) = Len(createDeck)

\* a deal has just built the deck of a room and dealt from it
C28_Witness ==
    \E r \in Rooms :
        /\ r.phase = "dealing" /\ r.gameId = 1
        /\ Len(r.deck) + Len(r.discardPile) + 2 * HandSize = DeckSize
        /\ sourceDeck[108].id = 108


\* the ids of the cards of a room, one entry per place a card lies in
idPlaces(r) ==
    {<<"deck", i, r.deck[i].id>> : i \in DOMAIN r.deck}
        \cup {<<"discard", i, r.discardPile[i].id>> : i \in DOMAIN r.discardPile}
        \cup UNION {{<<p, i, r.hands[p][i].id>> : i \in DOMAIN r.hands[p]} :
                       p \in DOMAIN r.hands}

\* no id lies in two places of the room
idsDistinct(r) == \A x, y \in idPlaces(r) : x # y => x[3] # y[3]

\* C29: in a room that has been dealt no card id occurs more than once across
\* the hands, the draw pile and the discard pile; and every play, draw and
\* turn of the computer leaves it so.
C29_NoCardTwice ==
    \A r \in Rooms :
        /\ r.gameId >= 1 => idsDistinct(r)
        /\ \A p \in Plays(r) : idsDistinct(resolved(p).room)
        /\ \A s \in Players, seed \in Seeds : idsDistinct(drawCard(r, s, seed).room)
        /\ \A t \in cpuTurns(r) : idsDistinct(t.post)

\* a draw has recycled the discard pile and dealt a penalty or forced draw
\* from it, and the played card lies on top
C29_Witness ==
    \E r \in Rooms :
        /\ r.phase = "playing" /\ moves >= 2
        /\ Len(r.deck) = 0 /\ Len(r.discardPile) = 1
        /\ cardCount(r) = DeckSize /\ idsDistinct(r)


\* C30 (as claimed): the two seats of a room are never held by the same
\* identity: a join-room by the player in seat 0 fills no seat and starts no
\* deal.
C30_SeatsDistinct ==
    \A r \in Rooms :
        /\ r.players[1] # r.players[2]
        /\ r.phase = "waiting" =>
              \A seed \in Seeds, color \in RandomColors, st \in 1..2 :
                  LET j == joinRoom(r, r.players[1], seed, color, st).room
                  IN  j.players[2] = Null /\ j.phase = "waiting" /\ j.gameId = r.gameId

\* what the code keeps: a join fills seat 1 of a waiting human room with the
\* joining socket, whoever it is, and a room that is full or against the
\* computer refuses it
C30_JoinFillsSeat ==
    \A r \in Rooms : \A s \in Players, seed \in Seeds, color \in RandomColors, st \in 1..2 :
        LET j == joinRoom(r, s, seed, color, st)
        IN  IF r.isCpuGame \/ r.players[2] # Null
            THEN j.room = r /\ j.error # ""
            ELSE j.room.players = <<r.players[1], s>> /\ j.room.phase = "dealing"


\* the sockets that sit in neither seat of the room
outsiders(r) == Sockets \ {r.players[1], r.players[2]}

\* C31 (as claimed): a call-last-card or deal-acknowledged intent sent by an
\* identity that sits in neither seat leaves the room as it was (flags,
\* acknowledgments, message, timestamp) and is not broadcast.
C31_OutsidersChangeNothing ==
    \A r \in Rooms : \A s \in outsiders(r) :
        /\ yellUno(r, s).room = r
        /\ \A g \in GameIds : dealDone(r, s, g).room = r

\* the part of C31 that holds: a play-card or draw-card intent of an outsider
\* is refused and leaves the room as it was
C31_OutsidersCannotPlay ==
    \A r \in Rooms : \A s \in outsiders(r), seed \in Seeds :
        /\ drawCard(r, s, seed).room = r
        /\ \A id \in probeIds(r, s), col \in ChosenColors :
              playCard(r, s, id, col, seed).room = r


\* C32 (as claimed): a deal-acknowledged intent for the current generation that
\* reaches a room already in phase playing leaves the phase, message,
\* timestamp, turn holder and armed timers as they were and is not broadcast.
C32_LateAckIdempotent ==
    \A r \in Rooms : \A s \in Sockets :
        r.phase = "playing" =>
            LET res == dealDone(r, s, r.gameId).room
            IN  /\ res.phase = r.phase
                /\ res.message = r.message
                /\ ~res.stamped
                /\ res.currentTurn = r.currentTurn
                /\ res.turnTimeout = r.turnTimeout
                /\ res.cpuTimer = r.cpuTimer
                /\ res.emits = 0

\* the part of C32 that holds: a late acknowledgment never changes the phase,
\* the turn holder, the hands or the piles of a room in phase playing
C32_LateAckKeepsTable ==
    \A r \in Rooms : \A s \in Sockets :
        r.phase = "playing" =>
            LET res == dealDone(r, s, r.gameId).room
            IN  /\ res.phase = r.phase
                /\ res.currentTurn = r.currentTurn
                /\ res.hands = r.hands
                /\ res.deck = r.deck
                /\ res.discardPile = r.discardPile


\* the room is game over by a win
wonRoom(r) == r.isGameOver /\ r.winner # Null

\* what a finished game must keep: both hands, the piles, the turn holder and
\* the recorded winner
table(r) == <<r.hands, r.deck, r.discardPile, r.currentTurn, r.winner>>

\* C33: once a room is game over by a win, no play-card, draw-card,
\* call-last-card, deal-acknowledged or join-room intent and no firing of the
\* turn timeout or of the computer's timer changes either hand, the draw pile,
\* the discard pile, the turn holder or the recorded winner.
C33_WonTableFrozen ==
    \A r \in Rooms : wonRoom(r) =>
        /\ \A s \in Sockets, seed \in Seeds :
              /\ drawCard(r, s, seed).room = r
              /\ \A id \in probeIds(r, s), col \in ChosenColors :
                    playCard(r, s, id, col, seed).room = r
              /\ \A col \in RandomColors, st \in 1..2 :
                    table(joinRoom(r, s, seed, col, st).room) = table(r)
        /\ \A s \in Sockets :
              /\ table(yellUno(r, s).room) = table(r)
              /\ \A g \in GameIds : table(dealDone(r, s, g).room) = table(r)
        /\ \A p \in Ids : table(turnTimeoutCallback(r, p)) = table(r)
        /\ \A roll \in BOOLEAN, rnd \in RandomColors, seed \in Seeds :
              \A chosen \in cpuChoices(r, roll) :
                  table(cpuTimerCallback(r, roll, chosen, rnd, seed)) = table(r)

\* a won room whose loser still holds cards while cards are left to draw
C33_WonReached ==
    \E r \in Rooms :
        /\ wonRoom(r)
        /\ r.deck # <<>>
        /\ \E s \in Players : s \in DOMAIN r.hands /\ handOf(r, s) # <<>>

\* a won room put back in phase playing by a late acknowledgment, with a
\* human holding the turn
C33_WonReopenedReached ==
    \E r \in Rooms :
        wonRoom(r) /\ r.phase = "playing" /\ r.currentTurn \in Players


\* the cards drawOne can still hand out once the card of p is on the discard
\* pile: the draw pile and every discard below the new top
penaltyStock(p) == Len(p.pre.deck) + Len(p.pre.discardPile)

\* a draw-card by the human s in r that is auto-played from a one-card hand
autoFromOne(r, s, seed) ==
    /\ turnOpen(r, s)
    /\ Len(handOf(r, s)) = 1
    /\ drawn(r, s, seed).card # NoCard
    /\ canAutoPlay(drawn(r, s, seed).card, topOf(drawn(r, s, seed).room))

\* C34: a draw that is auto-played and leaves the actor with exactly one card
\* incurs the penalty whether or not the actor had called last card before
\* drawing: the actor receives the two penalty cards (one when only one card
\* is left to hand out), and a human holding one card whose drawn card is
\* auto-played ends the step holding three cards when two cards are available.
C34_AutoPlayPenalised ==
    \A r \in Rooms :
        /\ \A p \in Plays(r) :
              (p.auto /\ Len(handOf(p.pre, p.actor)) = 2) =>
                  /\ resolved(p).ok
                  /\ Len(handOf(resolved(p).room, p.actor)) =
                        1 + (IF penaltyStock(p) >= 2 THEN 2 ELSE penaltyStock(p))
        /\ \A s \in Players, seed \in Seeds :
              (autoFromOne(r, s, seed)
                 /\ Len(drawn(r, s, seed).room.deck)
                      + Len(drawn(r, s, seed).room.discardPile) >= 2) =>
                  Len(handOf(drawCard(r, s, seed).room, s)) = 3

\* a human who called last card, holds one card and draws a card that is
\* auto-played, with two cards left to hand out
C34_Witness ==
    \E r \in Rooms : \E s \in Players, seed \in Seeds :
        /\ autoFromOne(r, s, seed)
        /\ r.unoStatus[s]
        /\ Len(drawn(r, s, seed).room.deck)
             + Len(drawn(r, s, seed).room.discardPile) >= 2

\* the same draw by the computer opponent
C34_CpuReached ==
    \E r \in Rooms : \E p \in cpuPlays(r) :
        p.auto /\ Len(handOf(p.pre, CPU_ID)) = 2


\* C35: while the phase is dealing or playing, the current turn holder is one
\* of the room's two occupied seats, also right after a timeout firing and
\* after a draw that passes the turn.
C35_TurnHolderSeated ==
    \A r \in Rooms :
        /\ (r.phase = "dealing" \/ r.phase = "playing") =>
              /\ r.currentTurn # Null
              /\ r.players[1] # Null /\ r.players[2] # Null
              /\ r.currentTurn \in {r.players[1], r.players[2]}
        /\ liveTimeout(r) =>
              turnTimeoutCallback(r, r.turnTimeout.player).currentTurn
                  \in {r.players[1], r.players[2]} \ {Null}
        /\ \A s \in Players, seed \in Seeds :
              turnOpen(r, s) =>
                  drawCard(r, s, seed).room.currentTurn
                      \in {r.players[1], r.players[2]} \ {Null}

\* a turn that a timeout firing or a kept draw has handed to the other seat
C35_Witness ==
    \E r \in Rooms :
        /\ r.phase = "playing"
        /\ r.message \in {<<"turn expired">>, <<"drew">>}
        /\ r.currentTurn \in {r.players[1], r.players[2]}


\* the cards of a hand
cardsOf(hand) == {hand[i] : i \in DOMAIN hand}

\* C36: on the hard tier every computer turn that starts with exactly two
\* cards and plays one of them ends with the computer holding exactly one
\* card, the other card of that hand: the played card lies on top of the
\* discard pile and no penalty card has been drawn.
C36_HardCpuNotPenalised ==
    \A r \in Rooms : \A t \in cpuTurns(r) :
        (r.cpuDifficulty = "hard" /\ Len(handOf(r, CPU_ID)) = 2 /\ t.chosen # NoCard) =>
            /\ Len(handOf(t.post, CPU_ID)) = 1
            /\ cardsOf(handOf(t.post, CPU_ID))
                   = {c \in cardsOf(handOf(r, CPU_ID)) : c.id # t.chosen.id}
            /\ topOf(t.post).id = t.chosen.id
            /\ t.post.message # <<"penalty">>
            /\ ~t.post.isGameOver

\* the hard computer is due with two cards, has not called yet and has a
\* card to play
C36_Witness ==
    \E r \in Rooms : \E t \in cpuTurns(r) :
        /\ r.cpuDifficulty = "hard" /\ Len(handOf(r, CPU_ID)) = 2
        /\ ~r.unoStatus[CPU_ID]
        /\ t.chosen # NoCard

====
